---- MODULE Spec2Model ----
(***************************************************************************)
(* Polling-and-edge-detection engine of projeto_lol.                       *)
(*                                                                         *)
(*   src/src/engine.py     OpeningEngine: the two polling cycles, the edge *)
(*                         detector and the deduplication cache            *)
(*   src/src/providers.py  PandaScoreProvider: the fetch client, and       *)
(*                         RateLimiter                                     *)
(*   src/src/notifier.py   TelegramNotifier: the notification sink         *)
(*                                                                         *)
(* Five state machines share the variables:                                *)
(*   Spec / FairSpec  the two cycles of OpeningEngine.run(), interleaved   *)
(*                    at their awaits                                      *)
(*   SpecFetch        one cycle iteration at a time, with the wider feed:  *)
(*                    the fetch client under every sequence of responses   *)
(*   SpecCache        the live cycle alone, fed with arbitrarily many      *)
(*                    distinct matches, so that the cache reaches its limit*)
(*   SpecLimiter      RateLimiter.acquire called by both cycles, with time *)
(* A step is the stretch of code a coroutine runs between two awaits (the  *)
(* for loops advance one match per step).                                  *)
(***************************************************************************)
EXTENDS Integers, Sequences, FiniteSets, TLC

VARIABLES
    environ,                \* os.environ: which settings the process was started with
    monitored_leagues,      \* PandaScoreProvider.monitored_leagues (set of slugs)
    pc,                     \* per cycle: where its coroutine stands
    phase,                  \* per cycle: request function active ("filtered"/"unfiltered")
    retries,                \* per cycle: the retries argument of _make_request
    batch,                  \* per cycle: the list the for loop iterates
    idx,                    \* per cycle: position of the for loop in batch
    notified_opportunities, \* OpeningEngine.notified_opportunities, the followed fingerprints
    notified_others,        \* how many further fingerprints the cache holds
    outcome,                \* history: how the fetch that just ended ended
    hist,                   \* history: the responses of the fetch so far
    sent,                   \* history: HTTP requests sent by the fetch so far
    resps,                  \* history: <<phase, kind>> of each response of the fetch
    asked,                  \* history: the statuses the fetch has requested so far
    lastBody,               \* history: the body of the 200 response that ended the fetch
    iterErr,                \* history: the except clause ended the iteration
    notified,               \* history: LIVE notify calls per followed fingerprint
    evictedFp,              \* history: followed fingerprints an eviction removed
    lastInsert,             \* history: what the insertion just made did
    obs,                    \* history: observer of two consecutive live iterations
    obsN,                   \* history: notifications counted by the observer
    requests,               \* RateLimiter.requests
    clock,                  \* wall clock, whole seconds
    lim,                    \* per cycle: position inside RateLimiter.acquire
    lnow,                   \* per cycle: the local `now` of acquire
    wakeAt,                 \* per cycle: when its asyncio.sleep in acquire ends
    probe,                  \* a call of has_edge: its arguments, the threshold, its result
    openBatch,              \* history: the batch of the opening iteration under way
    openAt,                 \* history: the positions of openBatch notified so far
    openSeen,               \* history: how often an opening fetch returned the followed match
    openNotified,           \* history: OPENING notify calls for the followed match
    openings,               \* history: opening iterations started
    delivery                \* history: what became of the message of the notify call just over

progVars  == <<pc, phase, retries, batch, idx>>
cacheVars == <<notified_opportunities, notified_others>>
limVars   == <<requests, clock, lim, lnow, wakeAt>>
fetchHist == <<outcome, hist, sent, resps, asked, lastBody>>
cacheHist == <<notified, evictedFp, lastInsert, obs, obsN>>
openHist  == <<openBatch, openAt, openSeen, openNotified, openings>>
sideHist  == <<openHist, delivery>>
vars      == <<environ, monitored_leagues, progVars, cacheVars, limVars,
               iterErr, fetchHist, cacheHist, probe, sideHist>>

----------------------------------------------------------------------------
(* Bounds of the model and configuration values                            *)

MaxRetries == 3          \* MAX_REQUEST_RETRIES (environment, default 3)
MaxBatch == 2            \* longest response body
EdgeThresholdPct == 5    \* EDGE_THRESHOLD, in percent
CacheLimit == 100        \* len(notified_opportunities) > 100
CacheKeep == 50          \* list(...)[-50:]
MaxRequests == 2         \* RateLimiter.max_requests (default 30)
TimeWindow == 3          \* RateLimiter.time_window, in seconds (60 in the provider)
MaxClock == 7            \* the clock stops here
MaxOpenings == 3         \* opening iterations followed by SpecOpening
DaySeconds == 86400      \* timedelta.seconds is taken modulo one day

Tasks == {"opening", "live"}

StatusOf(t) == IF t = "opening" THEN "upcoming" ELSE "running"

----------------------------------------------------------------------------
(* The feed: raw match records. Prices are in hundredths (185 = 1.85).     *)
(* wf: the record has two well-formed opponents. ml: the match-winner      *)
(* quote pair, keyed by the two team names, <<>> when the market is not    *)
(* quoted. kills: a total-kills over/under market is quoted.               *)

Rec(id, t1, t2, lg, sl, wf, ml, k) ==
    [id |-> id, team1 |-> t1, team2 |-> t2, league |-> lg, slug |-> sl,
     wf |-> wf, ml |-> ml, kills |-> k]

rEdge    == Rec("1", "T1", "GEN", "lck", "lck", TRUE, <<210, 185>>, FALSE)
rNoEdge  == Rec("2", "A", "B", "lck", "lck", TRUE, <<185, 195>>, FALSE)
rKills   == Rec("3", "G2", "FNC", "lec", "lec", TRUE, <<>>, TRUE)
rNoOdds  == Rec("4", "JDG", "BLG", "lpl", "lpl", TRUE, <<>>, FALSE)
rForeign == Rec("5", "X", "Y", "nacl", "nacl", TRUE, <<230, 230>>, FALSE)
rBroken  == Rec("6", "", "", "", "", FALSE, <<>>, FALSE)
\* Stands for any of the unboundedly many other matches that carry an opportunity.
Filler   == Rec("*", "*", "*", "*", "lck", TRUE, <<300, 300>>, FALSE)

\* the match of rEdge quoted at another price, with a second opportunity,
\* and under another match id
rEdgeMoved == Rec("1", "T1", "GEN", "lck", "lck", TRUE, <<220, 185>>, FALSE)
rEdgeBoth  == Rec("1", "T1", "GEN", "lck", "lck", TRUE, <<210, 230>>, FALSE)
rEdgeTwin  == Rec("7", "T1", "GEN", "lck", "lck", TRUE, <<210, 185>>, FALSE)

SchedFeed == {rEdge, rKills, rNoOdds}
LiveFeed == {rEdge, rEdgeMoved, rEdgeBoth, rEdgeTwin, rKills, rNoEdge}
FetchFeed == {rEdge, rNoEdge, rKills, rNoOdds, rForeign, rBroken}
CacheFeed == {rEdge, Filler}

Lists(S) == UNION {[1..n -> S] : n \in 0..MaxBatch}

Min(a, b) == IF a < b THEN a ELSE b

----------------------------------------------------------------------------
(* Normalisation of a response body (providers.py)                         *)

\* match_data.get('odds') is a non-empty mapping
HasOdds(rec) == rec.ml # <<>> \/ rec.kills

\* _format_single_match dropping a record without odds whatever its status
FormatsOnlyWithOdds(rec, status) ==
    /\ rec.wf
    /\ HasOdds(rec)

\* _format_single_match returns a record (not None)
Formats(rec, status) ==
    /\ rec.wf
    /\ (HasOdds(rec) \/ status = "upcoming")

\* _format_matches giving up on the batch at the first record it cannot format
format_matches_aborting(matches, status) ==
    IF \E i \in DOMAIN matches : ~matches[i].wf
    THEN <<>>
    ELSE SelectSeq(matches, LAMBDA r : Formats(r, status))

format_matches(matches, status) ==
    SelectSeq(matches, LAMBDA r : Formats(r, status))

\* _fetch_without_filters without the manual filter
ManualFilterSkipped(formatted) == formatted

\* the manual league filter of _fetch_without_filters
ManualFilter(formatted) ==
    IF monitored_leagues # {}
    THEN SelectSeq(formatted, LAMBDA r : r.slug \in monitored_leagues)
    ELSE formatted

----------------------------------------------------------------------------
(* Double-precision arithmetic. Python's float is the IEEE 754 binary64     *)
(* format: a price such as 2.1 is stored as the nearest number m * 2^e with *)
(* a 53-bit m, and every operation is rounded to the nearest such number    *)
(* (ties to the even m). The naturals below have any size: they are         *)
(* sequences of bits, least significant first, without a leading zero.      *)

MantissaBits == 53

Max(a, b) == IF a > b THEN a ELSE b

RECURSIVE Bits(_)
Bits(n) == IF n = 0 THEN <<>> ELSE <<n % 2>> \o Bits(n \div 2)

\* the largest element of a non-empty set of naturals
Top(S) == CHOOSE i \in S : \A j \in S : j <= i

Trim(a) == SubSeq(a, 1, Top({0} \cup {i \in DOMAIN a : a[i] = 1}))

Bit(a, i) == IF i \in DOMAIN a THEN a[i] ELSE 0

\* a < b: at the highest position where they differ, b has the 1
Less(a, b) ==
    Bit(b, Top({0} \cup {i \in 1..Max(Len(a), Len(b)) : Bit(a, i) # Bit(b, i)})) = 1

\* a - b, for a >= b: position i borrows when the bits of a below it make a
\* smaller number than those of b
Minus(a, b) ==
    Trim([i \in DOMAIN a |->
            (Bit(a, i) - Bit(b, i)
               - IF Less(SubSeq(a, 1, i - 1), SubSeq(b, 1, Min(i - 1, Len(b))))
                 THEN 1 ELSE 0) % 2])

\* a with its bits below k cleared and bit k set
CarryInto(a, k) ==
    [i \in 1..Max(Len(a), k) |-> IF i < k THEN 0 ELSE IF i = k THEN 1 ELSE a[i]]

\* a + 1: the carry stops at the lowest 0 of a
Succ(a) ==
    CarryInto(a, CHOOSE k \in 1..Len(a) + 1 :
                     Bit(a, k) = 0 /\ \A j \in 1..k - 1 : a[j] = 1)

\* a * 2^k
Shl(a, k) == IF a = <<>> THEN <<>> ELSE [i \in 1..k |-> 0] \o a

\* long division of n by d over the bits i down to j + 1 of n, with quotient
\* q and remainder r so far: bit i of n is brought down to the remainder, and
\* the bit of the quotient is 1 when d can be taken from it
RECURSIVE DivFrom(_, _, _, _, _, _)
DivFrom(n, d, i, j, q, r) ==
    \* Len(q) is taken so that the quotient is computed bit by bit
    CASE i = j \/ Len(q) < 0 -> [q |-> Trim(q), r |-> r]
      [] i > j /\ Less(Trim(<<n[i]>> \o r), d) ->
           DivFrom(n, d, i - 1, j, <<0>> \o q, Trim(<<n[i]>> \o r))
      [] OTHER ->
           DivFrom(n, d, i - 1, j, <<1>> \o q, Minus(Trim(<<n[i]>> \o r), d))

\* the long division from bit i of n down, eight bits at a time
RECURSIVE DivBytes(_, _, _, _)
DivBytes(n, d, i, qr) ==
    \* Len(qr.q) is taken so that the eight bits before are computed first
    CASE i = 0 \/ Len(qr.q) < 0 -> qr
      [] OTHER -> DivBytes(n, d, Max(i - 8, 0),
                           DivFrom(n, d, i, Max(i - 8, 0), qr.q, qr.r))

\* quotient and remainder of n by d, Len(n) >= Len(d) > 0
DivMod(n, d) ==
    DivBytes(n, d, Len(n) - Len(d) + 1,
             [q |-> <<>>, r |-> SubSeq(n, Len(n) - Len(d) + 2, Len(n))])

\* m * 2^e with m brought back to 53 bits after a carry out of them
Normal(m, e) ==
    IF Len(m) > MantissaBits THEN [m |-> Tail(m), e |-> e + 1] ELSE [m |-> m, e |-> e]

\* q * 2^e (plus a fraction of 2^e when `sticky`) rounded to 53 bits: the k
\* lowest bits of q go, and the result goes up when they and the fraction
\* are more than half of bit k + 1, or exactly half with bit k + 1 odd
RoundOff(q, k, sticky, e) ==
    Normal(IF q[k] = 1 /\ (sticky \/ (k = 2 /\ q[1] = 1) \/ q[k + 1] = 1)
           THEN Succ(SubSeq(q, k + 1, Len(q)))
           ELSE SubSeq(q, k + 1, Len(q)),
           e + k)

\* the quotient has one or two bits more than 53
Narrow(qr, e) ==
    IF Len(qr.q) = MantissaBits + 1
    THEN RoundOff(qr.q, 1, qr.r # <<>>, e)
    ELSE RoundOff(qr.q, 2, qr.r # <<>>, e)

\* the power of two that gives n * 2^s / d one or two bits more than 53
Shift(n, d) == MantissaBits + 1 + Len(d) - Len(n)

\* the double nearest to n / d * 2^e0, for n > 0
Round(n, d, e0) ==
    IF Shift(n, d) >= 0
    THEN Narrow(DivMod(Shl(n, Shift(n, d)), d), e0 - Shift(n, d))
    ELSE Narrow(DivMod(n, Shl(d, 0 - Shift(n, d))), e0 - Shift(n, d))

\* float("x.yz"), the literal x.yz, a JSON number: the double nearest to n / scale
Double(n, scale) == Round(Bits(n), Bits(scale), 0)

\* a < b
FloatLess(a, b) ==
    IF a.e < b.e THEN Less(a.m, Shl(b.m, b.e - a.e))
    ELSE Less(Shl(a.m, a.e - b.e), b.m)

\* the natural a - b of two doubles in units of 2^e, for b < a
Difference(a, b, e) == Minus(Shl(a.m, a.e - e), Shl(b.m, b.e - e))

\* a - b, for b < a
FloatMinus(a, b) == Round(Difference(a, b, Min(a.e, b.e)), <<1>>, Min(a.e, b.e))

\* a / b, for a > 0
FloatDiv(a, b) == Round(a.m, b.m, a.e - b.e)

\* (market_odd - fair_odd) / fair_odd > edge_threshold, all three doubles
FloatEdgeExceeds(market_odd, fair_odd, threshold) ==
    /\ FloatLess(fair_odd, market_odd)
    /\ FloatLess(threshold, FloatDiv(FloatMinus(market_odd, fair_odd), fair_odd))

\* a + b: position i takes a carry when a position j below it has two 1s
\* and every position between them has a 1
Plus(a, b) ==
    Trim([i \in 1..Max(Len(a), Len(b)) + 1 |->
            (Bit(a, i) + Bit(b, i)
               + IF \E j \in 1..i - 1 :
                       /\ Bit(a, j) + Bit(b, j) = 2
                       /\ \A t \in j + 1..i - 1 : Bit(a, t) + Bit(b, t) >= 1
                 THEN 1 ELSE 0) % 2])

\* a * b summed over the bits i and above of b, with the sum `acc` so far
RECURSIVE TimesFrom(_, _, _, _)
TimesFrom(a, b, i, acc) ==
    \* Len(acc) is taken so that the sum is computed term by term
    IF i > Len(b) \/ Len(acc) < 0 THEN acc
    ELSE TimesFrom(a, b, i + 1, IF b[i] = 1 THEN Plus(acc, Shl(a, i - 1)) ELSE acc)

\* a * b, summed over the bits of the shorter factor
Times(a, b) ==
    IF Len(a) < Len(b) THEN TimesFrom(b, a, 1, <<>>) ELSE TimesFrom(a, b, 1, <<>>)

\* 0.0 and 1.0
Zero == [m |-> <<>>, e |-> 0]

One == Double(1, 1)

\* a + b, for a, b >= 0
FloatPlus(a, b) ==
    IF a.m = <<>> THEN b
    ELSE IF b.m = <<>> THEN a
    ELSE Round(Plus(Shl(a.m, a.e - Min(a.e, b.e)), Shl(b.m, b.e - Min(a.e, b.e))),
               <<1>>, Min(a.e, b.e))

\* a * b, for a, b >= 0
FloatTimes(a, b) ==
    IF a.m = <<>> \/ b.m = <<>> THEN Zero
    ELSE Round(Times(a.m, b.m), <<1>>, a.e + b.e)

\* a / b, for a >= 0
Quotient(a, b) == IF a.m = <<>> THEN Zero ELSE FloatDiv(a, b)

\* 1 - a for a >= 0, as a sign with a magnitude
OneMinus(a) ==
    IF a.m = <<>> THEN [sign |-> 1, abs |-> One]
    ELSE IF a = One THEN [sign |-> 0, abs |-> Zero]
    ELSE IF FloatLess(a, One) THEN [sign |-> 1, abs |-> FloatMinus(One, a)]
    ELSE [sign |-> 0 - 1, abs |-> FloatMinus(a, One)]

\* 1 - p for a signed p <= 1
OneMinusSigned(p) ==
    IF p.sign < 0 THEN [sign |-> 1, abs |-> FloatPlus(One, p.abs)]
    ELSE OneMinus(p.abs)

----------------------------------------------------------------------------
(* Poisson fair prices (fair_odds.py). A mean is n * 2^s with a small      *)
(* natural n, a line is given in halves (3: the line 1.5).                  *)

RECURSIVE Power(_, _)
Power(n, k) == IF k = 0 THEN 1 ELSE n * Power(n, k - 1)

RECURSIVE Factorial(_)
Factorial(k) == IF k = 0 THEN 1 ELSE k * Factorial(k - 1)

\* the largest k whose factorial is in the range of a double: 170! < 2^1024 < 171!
FactorialFloatMax == 170

\* lam**k: 0.0**0 is 1.0; the powers taken here are exact in 53 bits
FloatPower(lam, k) ==
    IF k = 0 THEN One
    ELSE IF lam.n = 0 THEN Zero
    ELSE [m |-> Bits(Power(lam.n, k)), e |-> lam.s * k]

\* math.exp(-lam), the double the C library returns
ExpNeg(lam) ==
    CASE lam.n = 0 -> One
      [] lam = [n |-> 1, s |-> 0 - 1] ->
           [m |-> <<0, 1, 0, 1, 0, 0, 0, 0, 0, 1, 1, 0, 1, 0, 0, 1, 1, 1, 1, 1, 0, 1, 1, 0, 0, 0, 1,
                   1, 1, 1, 1, 1, 0, 1, 0, 0, 1, 1, 0, 1, 0, 0, 0, 1, 0, 1, 1, 0, 1, 1, 0, 0, 1>>,
            e |-> -53]
      [] lam = [n |-> 1, s |-> 1] ->
           [m |-> <<0, 0, 1, 1, 0, 0, 1, 1, 1, 0, 0, 0, 0, 0, 0, 1, 1, 1, 1, 1, 1, 1, 0, 1, 1, 1, 0,
                   0, 0, 1, 0, 1, 0, 1, 0, 1, 0, 1, 0, 1, 0, 1, 0, 0, 1, 0, 1, 0, 1, 0, 0, 0, 1>>,
            e |-> -55]
      [] lam = [n |-> 27, s |-> 0] ->
           [m |-> <<0, 1, 0, 1, 1, 0, 0, 1, 0, 1, 1, 1, 1, 1, 1, 0, 0, 1, 1, 0, 1, 1, 1, 0, 0, 0, 0,
                   1, 1, 0, 0, 1, 0, 1, 0, 0, 1, 0, 1, 0, 0, 0, 0, 1, 0, 0, 0, 1, 0, 0, 0, 0, 1>>,
            e |-> -91]

\* poisson_prob: (lam**k * math.exp(-lam)) / math.factorial(k), for k whose
\* factorial converts to a double
poisson_prob(lam, k) ==
    Quotient(FloatTimes(FloatPower(lam, k), ExpNeg(lam)), Double(Factorial(k), 1))

\* int(line)
IntOf(line2) == line2 \div 2

\* a range that leaves out int(line)
CountsBelow(line2) == 0..(IntOf(line2) - 1)

\* range(int(line) + 1)
Counts(line2) == 0..IntOf(line2)

\* sum(poisson_prob(avg_value, k) for k in counts from k on), added to `total`
RECURSIVE SumFrom(_, _, _, _)
SumFrom(lam, k, counts, total) ==
    \* Len(total.m) is taken so that the sum is computed term by term
    IF k \notin counts \/ Len(total.m) < 0 THEN total
    ELSE SumFrom(lam, k + 1, counts, FloatPlus(total, poisson_prob(lam, k)))

\* 1 / prob if prob > 0 else None
PriceOf(prob) ==
    IF prob.sign > 0
    THEN [priced |-> TRUE, value |-> FloatDiv(One, prob.abs)]
    ELSE [priced |-> FALSE, value |-> Zero]

\* the mapping returned for the two probabilities
Returned(prob_over, prob_under) ==
    [raised |-> "", prob_over |-> prob_over, prob_under |-> prob_under,
     over |-> PriceOf(prob_over), under |-> PriceOf(prob_under)]

\* prob_under = 1 - prob_over
Probabilities(prob_over) == Returned(prob_over, OneMinusSigned(prob_over))

\* fair_odds(avg_value, line): the two probabilities and the mapping
\* returned, or the exception raised: the division by math.factorial(k)
\* converts it to a double and raises OverflowError when it is out of range
fair_odds(lam, line2) ==
    IF \E k \in Counts(line2) : k > FactorialFloatMax
    THEN [Returned([sign |-> 0, abs |-> Zero], [sign |-> 0, abs |-> Zero])
            EXCEPT !.raised = "OverflowError"]
    ELSE Probabilities(OneMinus(SumFrom(lam, 0, Counts(line2), Zero)))

----------------------------------------------------------------------------
(* Edge detector (engine.py)                                               *)

\* f"{team1} vs {team2}"
MatchName(rec) == <<rec.team1, rec.team2>>

\* base_prob of calculate_fair_moneyline, in percent
base_prob(league) ==
    IF league \in {"lck", "lpl"} THEN 52
    ELSE IF league \in {"lec", "lcs"} THEN 48
    ELSE 50

\* win probability behind the fair price of side i: fair = 1 / (p / 100)
FairProb(rec, i) == IF i = 1 THEN base_prob(rec.league) ELSE 100 - base_prob(rec.league)

\* has_edge(market_odd, fair_odd) at the threshold thr percent, the prices in
\* hundredths (0: None). When the edge of the decimal prices differs from the
\* threshold, it differs by at least 1/(100 * fair_odd), far more than the
\* rounding of the doubles (about 10^-15), and the comparison of the decimals
\* decides; when the two are equal, the rounding decides.
has_edge_at(q, f, thr) ==
    /\ q # 0
    /\ f # 0
    /\ IF 100 * (q - f) # thr * f
       THEN 100 * (q - f) > thr * f
       ELSE FloatEdgeExceeds(Double(q, 100), Double(f, 100), Double(thr, 100))

\* has_edge(market_odd, fair_odd) with market_odd = q / 100 and the fair price
\* of calculate_fair_moneyline, fair_odd = 1 / (p / 100): the edge exceeds the
\* threshold when q * p / 10000 - 1 > thr / 100; the rounding decides a tie
has_edge(q, p) ==
    /\ q # 0
    /\ p # 0
    /\ IF q * p # 10000 + 100 * EdgeThresholdPct
       THEN q * p > 10000 + 100 * EdgeThresholdPct
       ELSE FloatEdgeExceeds(Double(q, 100), FloatDiv(Double(1, 1), Double(p, 100)),
                             Double(EdgeThresholdPct, 100))

\* the quote of a total-kills market is a mapping: has_edge subtracts a float
\* from it and raises TypeError
AnalysisRaises(rec) == rec.kills

find_value_opportunities(rec) ==
    {[key |-> <<"ML", i>>, current |-> rec.ml[i], fairp |-> FairProb(rec, i)] :
        i \in {j \in DOMAIN rec.ml : has_edge(rec.ml[j], FairProb(rec, j))}}

\* analyze_opportunities: match_data.get('odds', {}), the odds mapping itself,
\* one entry per market with the quotes as the feed gave them
analyze_opportunities(rec) ==
    (IF rec.ml # <<>> THEN {[key |-> "ML", quotes |-> rec.ml]} ELSE {})
        \cup (IF rec.kills THEN {[key |-> "KillsO/U", quotes |-> "over_under"]} ELSE {})

\* a fingerprint of the match alone
FingerprintByName(rec) == <<MatchName(rec), {}>>

\* a fingerprint that identifies the match by its match id
FingerprintById(rec) == <<rec.id, find_value_opportunities(rec)>>

\* opportunity_id = f"{match}_{hash(str(opportunities))}"
Fingerprint(rec) == <<MatchName(rec), find_value_opportunities(rec)>>

\* the fingerprints whose cache membership is followed one by one
FollowedFp == {Fingerprint(r) : r \in {rEdge, rForeign}}

----------------------------------------------------------------------------
(* Initial state: OpeningEngine() constructed, run() about to start both   *)
(* cycles.                                                                 *)

LeagueConfigs == {{}, {"lck", "lec"}}     \* MONITORED_LEAGUES unset / set

\* the settings PandaScoreProvider.__init__ depends on: whether
\* PANDASCORE_TOKEN is set (and not empty), and whether the numeric settings
\* (REQUEST_TIMEOUT_SECONDS, MAX_REQUEST_RETRIES, API_RESULTS_PER_PAGE,
\* RATE_LIMIT_REQUESTS_PER_MINUTE) are integer literals or unset
Environments == [token : BOOLEAN, numeric : BOOLEAN]

\* the state after OpeningEngine() was constructed
InitSched ==
    /\ environ = [token |-> TRUE, numeric |-> TRUE]
    /\ monitored_leagues \in LeagueConfigs
    /\ pc = [t \in Tasks |-> "start"]
    /\ phase = [t \in Tasks |-> "unfiltered"]
    /\ retries = [t \in Tasks |-> 0]
    /\ batch = [t \in Tasks |-> <<>>]
    /\ idx = [t \in Tasks |-> 0]
    /\ outcome = [t \in Tasks |-> "none"]
    /\ hist = [t \in Tasks |-> "none"]
    /\ sent = [t \in Tasks |-> 0]
    /\ resps = [t \in Tasks |-> <<>>]
    /\ asked = [t \in Tasks |-> {}]
    /\ lastBody = [t \in Tasks |-> <<>>]
    /\ iterErr = [t \in Tasks |-> FALSE]

InitCache ==
    /\ notified_opportunities = {}
    /\ notified_others = 0
    /\ notified = [f \in FollowedFp |-> 0]
    /\ evictedFp = {}
    /\ lastInsert = "none"
    /\ obs = [f \in FollowedFp |-> "idle"]
    /\ obsN = [f \in FollowedFp |-> 0]

InitLimiter ==
    /\ requests = <<>>
    /\ clock = 0
    /\ lim = [t \in Tasks |-> "idle"]
    /\ lnow = [t \in Tasks |-> 0]
    /\ wakeAt = [t \in Tasks |-> 0]

InitOpening ==
    /\ openBatch = <<>>
    /\ openAt = <<>>
    /\ openSeen = 0
    /\ openNotified = 0
    /\ openings = 0

InitSide == InitOpening /\ delivery = "none"

\* no call of has_edge is followed
NoProbe == [market_odd |-> 0, fair_odd |-> 0, threshold |-> EdgeThresholdPct,
            flagged |-> "uncalled"]

Init == InitSched /\ InitCache /\ InitLimiter /\ probe = NoProbe /\ InitSide

\* the state before OpeningEngine() is constructed, under any environment
InitBoot ==
    /\ environ \in Environments
    /\ monitored_leagues \in LeagueConfigs
    /\ pc = [t \in Tasks |-> "new"]
    /\ phase = [t \in Tasks |-> "unfiltered"]
    /\ retries = [t \in Tasks |-> 0]
    /\ batch = [t \in Tasks |-> <<>>]
    /\ idx = [t \in Tasks |-> 0]
    /\ outcome = [t \in Tasks |-> "none"]
    /\ hist = [t \in Tasks |-> "none"]
    /\ sent = [t \in Tasks |-> 0]
    /\ resps = [t \in Tasks |-> <<>>]
    /\ asked = [t \in Tasks |-> {}]
    /\ lastBody = [t \in Tasks |-> <<>>]
    /\ iterErr = [t \in Tasks |-> FALSE]
    /\ InitCache
    /\ InitLimiter
    /\ probe = NoProbe
    /\ InitSide

----------------------------------------------------------------------------
(* Construction: OpeningEngine.__init__ builds PandaScoreProvider, and     *)
(* main.py then runs OpeningEngine.run()                                   *)

\* int(os.getenv(...)) of the four numeric settings returns (no ValueError)
SettingsParse == environ.numeric

\* _validate_config without the check of the token
validate_config_lenient == TRUE

\* _validate_config returns (no ValueError): the token is set; a short or
\* oddly formed token is only logged
validate_config == environ.token

\* PandaScoreProvider(): the settings are parsed, the rate limiter is built
\* (empty), the configuration is validated; an exception leaves
\* OpeningEngine() and the process ends before run() starts a cycle
Construct ==
    /\ \A t \in Tasks : pc[t] = "new"
    /\ pc' = [t \in Tasks |->
                 IF SettingsParse /\ validate_config THEN "start" ELSE "config_error"]
    /\ UNCHANGED <<environ, monitored_leagues, phase, retries, batch, idx,
                   cacheVars, limVars>>

----------------------------------------------------------------------------
(* Fetch client: _fetch_matches_by_status, reached from get_upcoming_odds  *)
(* (opening cycle) and get_live_odds (live cycle).                         *)
(* The actions of this and the next two sections constrain the program's   *)
(* variables only; the history variables are set by the observers below.   *)

RespKinds == {"ok", "nonlist", "timeout", "s5xx", "s429", "s400", "s4xx"}

Transient(kind) == kind \in {"timeout", "s5xx"}

\* the call returns `list` to the cycle; get_live_odds keeps the matches with odds
Returns(t, list) ==
    /\ pc' = [pc EXCEPT ![t] = "process"]
    /\ batch' = [batch EXCEPT ![t] =
                    IF t = "live" THEN SelectSeq(list, HasOdds) ELSE list]
    /\ idx' = [idx EXCEPT ![t] = 1]
    /\ UNCHANGED <<phase, retries>>

\* the iteration is over (for loop done, or except clause): its locals are
\* gone and the cycle goes to its asyncio.sleep
EndIteration(t) ==
    /\ pc' = [pc EXCEPT ![t] = "sleep"]
    /\ phase' = [phase EXCEPT ![t] = "unfiltered"]
    /\ retries' = [retries EXCEPT ![t] = 0]
    /\ batch' = [batch EXCEPT ![t] = <<>>]
    /\ idx' = [idx EXCEPT ![t] = 0]

\* the exception ends the coroutine instead of its iteration
PropagatesUncaught(t) ==
    /\ pc' = [pc EXCEPT ![t] = "crashed"]
    /\ UNCHANGED <<phase, retries, batch, idx>>

\* the exception leaves the call and lands in the cycle's except clause
Propagates(t) == EndIteration(t)

\* _make_request returned `result` to _fetch_with_league_filter / _fetch_without_filters
RequestReturns(t, result) ==
    IF phase[t] = "filtered"
    THEN Returns(t, format_matches(result, StatusOf(t)))
    ELSE Returns(t, ManualFilter(format_matches(result, StatusOf(t))))

\* _fetch_with_league_filter falling back on every HTTPStatusError
RequestRaisesAnyStatus(t, kind) ==
    IF phase[t] = "filtered"
    THEN /\ phase' = [phase EXCEPT ![t] = "unfiltered"]
         /\ retries' = [retries EXCEPT ![t] = 0]
         /\ pc' = [pc EXCEPT ![t] = "request"]
         /\ UNCHANGED <<batch, idx>>
    ELSE Returns(t, <<>>)

\* _make_request raised HTTPStatusError with the status of `kind`
RequestRaises(t, kind) ==
    IF phase[t] = "filtered"
    THEN IF kind = "s400"
         THEN \* return None: _fetch_without_filters sends the unfiltered request
              /\ phase' = [phase EXCEPT ![t] = "unfiltered"]
              /\ retries' = [retries EXCEPT ![t] = 0]
              /\ pc' = [pc EXCEPT ![t] = "request"]
              /\ UNCHANGED <<batch, idx>>
         ELSE Propagates(t)
    ELSE \* except Exception: return []
         Returns(t, <<>>)

\* the bodies the feed can answer a request with
Bodies(t, feed) ==
    IF phase[t] = "filtered"
    THEN Lists({r \in feed : r.slug \in monitored_leagues})
    ELSE Lists(feed)

\* _fetch_matches_by_status is called: rate_limiter.acquire() sleeps first
\* (full) or returns at once, and then the first request is sent
Enter(t, full) ==
    /\ pc[t] = "start"
    /\ pc' = [pc EXCEPT ![t] = IF full THEN "acquire" ELSE "request"]
    /\ phase' = [phase EXCEPT ![t] =
                    IF monitored_leagues # {} THEN "filtered" ELSE "unfiltered"]
    /\ retries' = [retries EXCEPT ![t] = 0]
    /\ batch' = [batch EXCEPT ![t] = <<>>]
    /\ idx' = [idx EXCEPT ![t] = 0]

\* the call with the limiter left out: whether acquire sleeps is open
\* (SpecLimiter and SpecSlots have the timestamps that decide it)
StartFetch(t) ==
    /\ \E full \in BOOLEAN : Enter(t, full)
    /\ UNCHANGED <<environ, monitored_leagues, cacheVars, limVars>>

\* a limiter that lets one caller through at a time
AcquireDoneExclusive(t) ==
    /\ pc[t] = "acquire"
    /\ \A u \in Tasks \ {t} : pc[u] # "acquire"
    /\ pc' = [pc EXCEPT ![t] = "request"]
    /\ UNCHANGED <<environ, monitored_leagues, phase, retries, batch, idx, cacheVars, limVars>>

\* acquire has returned after its sleep: the first request is sent
Resume(t) ==
    /\ pc[t] = "acquire"
    /\ pc' = [pc EXCEPT ![t] = "request"]
    /\ UNCHANGED <<phase, retries, batch, idx>>

\* asyncio.sleep(wait_time) of acquire is over
AcquireDone(t) ==
    /\ Resume(t)
    /\ UNCHANGED <<environ, monitored_leagues, cacheVars, limVars>>

\* a client that allows one retry more
RetriesLeftOneMore(t) == retries[t] <= MaxRetries

\* retries < self.max_retries
RetriesLeft(t) == retries[t] < MaxRetries

\* a client whose filtered request, out of retries on a timeout, signals the
\* fallback as a 400 does
RespondFallingBack(t, feed, kind) ==
    /\ pc[t] = "request"
    /\ CASE kind = "ok" -> \E body \in Bodies(t, feed) : RequestReturns(t, body)
         [] kind = "nonlist" -> RequestReturns(t, <<>>)
         [] Transient(kind) /\ RetriesLeft(t) ->
                /\ pc' = [pc EXCEPT ![t] = "backoff"]
                /\ UNCHANGED <<phase, retries, batch, idx>>
         [] kind = "timeout" /\ ~RetriesLeft(t) -> RequestRaises(t, "s400")
         [] kind = "s5xx" /\ ~RetriesLeft(t) -> RequestRaises(t, kind)
         [] kind = "s429" ->
                /\ pc' = [pc EXCEPT ![t] = "cooldown"]
                /\ UNCHANGED <<phase, retries, batch, idx>>
         [] kind \in {"s400", "s4xx"} -> RequestRaises(t, kind)
    /\ UNCHANGED <<environ, monitored_leagues, cacheVars, limVars>>

\* a response of kind `kind` to the request in flight arrives: the rest of
\* _make_request
Respond(t, feed, kind) ==
    /\ pc[t] = "request"
    /\ CASE kind = "ok" -> \E body \in Bodies(t, feed) : RequestReturns(t, body)
         [] kind = "nonlist" -> RequestReturns(t, <<>>)
         [] Transient(kind) /\ RetriesLeft(t) ->
                /\ pc' = [pc EXCEPT ![t] = "backoff"]
                /\ UNCHANGED <<phase, retries, batch, idx>>
         [] kind = "timeout" /\ ~RetriesLeft(t) -> RequestReturns(t, <<>>)
         [] kind = "s5xx" /\ ~RetriesLeft(t) -> RequestRaises(t, kind)
         [] kind = "s429" ->
                /\ pc' = [pc EXCEPT ![t] = "cooldown"]
                /\ UNCHANGED <<phase, retries, batch, idx>>
         [] kind \in {"s400", "s4xx"} -> RequestRaises(t, kind)
    /\ UNCHANGED <<environ, monitored_leagues, cacheVars, limVars>>

\* a wait that grows by one second per retry
BackoffWaitLinear(t) == retries[t] + 1

\* the seconds of the sleep before the retry: 2 ** retries
BackoffWait(t) == 2 ^ retries[t]

\* a retry that takes a further slot of the limiter
BackoffDoneAcquiring(t) ==
    /\ pc[t] = "backoff"
    /\ pc' = [pc EXCEPT ![t] = "request"]
    /\ retries' = [retries EXCEPT ![t] = @ + 1]
    /\ requests' = Append(requests, clock)
    /\ UNCHANGED <<environ, monitored_leagues, phase, batch, idx, cacheVars,
                   clock, lim, lnow, wakeAt>>

\* asyncio.sleep(2 ** retries) is over: _make_request(url, params, retries + 1)
BackoffDone(t) ==
    /\ pc[t] = "backoff"
    /\ pc' = [pc EXCEPT ![t] = "request"]
    /\ retries' = [retries EXCEPT ![t] = @ + 1]
    /\ UNCHANGED <<environ, monitored_leagues, phase, batch, idx, cacheVars, limVars>>

\* asyncio.sleep(60) of _handle_response_errors is over: it raises
\* HTTPStatusError; 429 < 500, so _make_request re-raises it
CooldownDone(t) ==
    /\ pc[t] = "cooldown"
    /\ RequestRaises(t, "s429")
    /\ UNCHANGED <<environ, monitored_leagues, cacheVars, limVars>>

----------------------------------------------------------------------------
(* Deduplication cache (engine.py, monitor_live_odds). The cache is the    *)
(* set notified_opportunities of the followed fingerprints together with   *)
(* notified_others further entries, which are interchangeable.             *)

\* a membership test that never hits
InCacheNever(f) == f \in {}

\* opportunity_id in self.notified_opportunities
InCache(f) == f \in notified_opportunities

CacheSize == Cardinality(notified_opportunities) + notified_others

\* an eviction that starts one entry late
EvictsLate(n) == n > CacheLimit + 1

\* len(self.notified_opportunities) > 100
Evicts(n) == n > CacheLimit

\* set(list(self.notified_opportunities)[-50:]): the last 50 entries in the
\* iteration order of a set, which is the order of the hash table and not of
\* insertion; every choice of 50 entries is an order the table can have
Evictions(followed, others) ==
    {[followed |-> S, others |-> CacheKeep - Cardinality(S)] :
        S \in {T \in SUBSET followed :
                 CacheKeep - Cardinality(T) \in 0..others}}

\* notified_opportunities.add(opportunity_id) and the eviction after it
Insert(rec) ==
    LET followed1 == IF rec = Filler THEN notified_opportunities
                     ELSE notified_opportunities \cup {Fingerprint(rec)}
        others1 == IF rec = Filler THEN notified_others + 1 ELSE notified_others
    IN  IF Evicts(Cardinality(followed1) + others1)
        THEN \E e \in Evictions(followed1, others1) :
               /\ notified_opportunities' = e.followed
               /\ notified_others' = e.others
        ELSE /\ notified_opportunities' = followed1
             /\ notified_others' = others1

----------------------------------------------------------------------------
(* The two cycles (engine.py): monitor_opening_odds and monitor_live_odds  *)

Current(t) == batch[t][idx[t]]

InLoop(t) == pc[t] = "process" /\ idx[t] <= Len(batch[t])

Advance(t) ==
    /\ idx' = [idx EXCEPT ![t] = @ + 1]
    /\ UNCHANGED <<pc, phase, retries, batch>>

Notify(t) ==
    /\ pc' = [pc EXCEPT ![t] = "notify"]
    /\ UNCHANGED <<phase, retries, batch, idx>>

\* the event the cycle hands to notifier.notify while pc[t] = "notify"
Event(t) ==
    [type |-> IF t = "opening" THEN "OPENING" ELSE "LIVE",
     match |-> MatchName(Current(t)),
     odds |-> IF t = "opening" THEN analyze_opportunities(Current(t))
              ELSE find_value_opportunities(Current(t))]

\* the for loop is over: the cycle goes to its asyncio.sleep
LoopEnd(t) ==
    /\ pc[t] = "process"
    /\ idx[t] > Len(batch[t])
    /\ EndIteration(t)
    /\ UNCHANGED <<environ, monitored_leagues, cacheVars, limVars>>

\* an opening cycle that consults the deduplication cache as the live one does
OpeningStepDeduplicated ==
    /\ InLoop("opening")
    /\ IF analyze_opportunities(Current("opening")) # {}
          /\ ~InCache(Fingerprint(Current("opening")))
       THEN Notify("opening")
       ELSE Advance("opening")
    /\ UNCHANGED <<environ, monitored_leagues, cacheVars, limVars>>

\* one match of the opening cycle, up to the await of notify
OpeningStep ==
    /\ InLoop("opening")
    /\ IF analyze_opportunities(Current("opening")) # {}
       THEN Notify("opening")
       ELSE Advance("opening")
    /\ UNCHANGED <<environ, monitored_leagues, cacheVars, limVars>>

\* a live cycle that catches the exception per match and goes on with the
\* next one
LiveStepSkippingFailed ==
    /\ InLoop("live")
    /\ LET rec == Current("live") IN
         IF AnalysisRaises(rec)
         THEN Advance("live")
         ELSE IF find_value_opportunities(rec) = {}
         THEN Advance("live")
         ELSE IF InCache(Fingerprint(rec))
         THEN Advance("live")
         ELSE Notify("live")
    /\ UNCHANGED <<environ, monitored_leagues, cacheVars, limVars>>

\* one match of the live cycle, up to the await of notify; an entry among
\* notified_others is hit or not as the match and its quotes decide
LiveStep ==
    /\ InLoop("live")
    /\ LET rec == Current("live") IN
         IF AnalysisRaises(rec)
         THEN EndIteration("live")
         ELSE IF find_value_opportunities(rec) = {}
         THEN Advance("live")
         ELSE IF rec = Filler
         THEN \E hit \in BOOLEAN :
                /\ hit => notified_others > 0
                /\ IF hit THEN Advance("live") ELSE Notify("live")
         ELSE IF InCache(Fingerprint(rec))
         THEN Advance("live")
         ELSE Notify("live")
    /\ UNCHANGED <<environ, monitored_leagues, cacheVars, limVars>>

\* a cycle whose for loop ends with the first notification
NotifyDoneBreaks(t) ==
    /\ pc[t] = "notify"
    /\ pc' = [pc EXCEPT ![t] = "process"]
    /\ idx' = [idx EXCEPT ![t] = Len(batch[t]) + 1]
    /\ IF t = "live" THEN Insert(Current(t)) ELSE UNCHANGED cacheVars
    /\ UNCHANGED <<environ, monitored_leagues, phase, retries, batch, limVars>>

\* await self.notifier.notify(...) is over (the notifier swallows delivery
\* errors, notifier.py _send_telegram_message)
NotifyDone(t) ==
    /\ pc[t] = "notify"
    /\ pc' = [pc EXCEPT ![t] = "process"]
    /\ idx' = [idx EXCEPT ![t] = @ + 1]
    /\ IF t = "live" THEN Insert(Current(t)) ELSE UNCHANGED cacheVars
    /\ UNCHANGED <<environ, monitored_leagues, phase, retries, batch, limVars>>

\* await asyncio.sleep(poll_interval / live_poll_interval) is over
SleepDone(t) ==
    /\ pc[t] = "sleep"
    /\ pc' = [pc EXCEPT ![t] = "start"]
    /\ UNCHANGED <<environ, monitored_leagues, phase, retries, batch, idx, cacheVars, limVars>>

----------------------------------------------------------------------------
(* RateLimiter (providers.py), shared by the two cycles through the        *)
(* provider: acquire is called at the start of every fetch.                *)

\* timedelta.seconds: the seconds of the difference, days left out
Seconds(later, earlier) == (later - earlier) % DaySeconds

\* self.requests without the entries the comprehension drops
Pruned(now) ==
    SelectSeq(requests, LAMBDA req_time : Seconds(now, req_time) < TimeWindow)

\* self.time_window - (now - self.requests[0]).seconds + 1
WaitTime(now, kept) == TimeWindow - Seconds(now, kept[1]) + 1

\* acquire up to its await, or to its end when it does not sleep
AcquireCall(t) ==
    /\ lim[t] = "idle"
    /\ LET now == clock
           kept == Pruned(now)
       IN  IF Len(kept) >= MaxRequests /\ WaitTime(now, kept) > 0
           THEN /\ requests' = kept
                /\ lim' = [lim EXCEPT ![t] = "waiting"]
                /\ lnow' = [lnow EXCEPT ![t] = now]
                /\ wakeAt' = [wakeAt EXCEPT ![t] = now + WaitTime(now, kept)]
           ELSE /\ requests' = Append(kept, now)
                /\ UNCHANGED <<lim, lnow, wakeAt>>
    /\ clock' = clock

\* asyncio.sleep(wait_time) is over: self.requests.append(now), with the
\* `now` read before the sleep
AcquireReturn(t) ==
    /\ lim[t] = "waiting"
    /\ clock >= wakeAt[t]
    /\ requests' = Append(requests, lnow[t])
    /\ lim' = [lim EXCEPT ![t] = "idle"]
    /\ lnow' = [lnow EXCEPT ![t] = 0]
    /\ wakeAt' = [wakeAt EXCEPT ![t] = 0]
    /\ clock' = clock

\* the limiter alone: a call of acquire by cycle t, and its return from the sleep
Acquire(t) ==
    AcquireCall(t) /\ UNCHANGED <<environ, monitored_leagues, progVars, cacheVars>>

AcquireWake(t) ==
    AcquireReturn(t) /\ UNCHANGED <<environ, monitored_leagues, progVars, cacheVars>>

\* the limiter inside the fetch: _fetch_matches_by_status awaits acquire
\* before anything else
StartFetchLimited(t) ==
    /\ AcquireCall(t)
    /\ Enter(t, lim'[t] = "waiting")
    /\ UNCHANGED <<environ, monitored_leagues, cacheVars>>

AcquireDoneLimited(t) ==
    /\ AcquireReturn(t)
    /\ Resume(t)
    /\ UNCHANGED <<environ, monitored_leagues, cacheVars>>

\* one second passes
Tick ==
    /\ clock < MaxClock
    /\ clock' = clock + 1
    /\ UNCHANGED <<environ, monitored_leagues, progVars, cacheVars, requests, lim, lnow, wakeAt>>

\* the recorded timestamps that lie within the rolling window that ends now
InWindow == {i \in DOMAIN requests : clock - requests[i] < TimeWindow}

----------------------------------------------------------------------------
(* Observers: history variables, set from the step the cycle t takes.      *)

InFetch(t) == pc[t] \in {"request", "cooldown"}

\* the step ends the fetch by returning a list / by raising
FetchReturned(t) == InFetch(t) /\ pc'[t] = "process"

FetchRaised(t) == InFetch(t) /\ pc'[t] = "sleep"

\* the step leaves the for loop through the except clause
LoopRaised(t) == InLoop(t) /\ pc'[t] = "sleep"

\* the step sends an HTTP request
RequestSent(t) ==
    /\ pc'[t] = "request"
    /\ pc[t] # "request" \/ phase'[t] # phase[t]

\* the step calls notifier.notify
NotifyCalled(t) == pc[t] = "process" /\ pc'[t] = "notify"

TrackErr(t) ==
    iterErr' = [iterErr EXCEPT ![t] =
                   IF pc[t] = "start" THEN FALSE
                   ELSE IF FetchRaised(t) \/ LoopRaised(t) THEN TRUE
                   ELSE @]

HistAfter(h, kind) ==
    IF kind = "s429" THEN "s429"
    ELSE IF Transient(kind) /\ h \in {"none", "transient"} THEN "transient"
    ELSE "other"

\* the history of a fetch is kept until the step after the one that ends it
TrackFetch(t, kind) ==
    LET during == pc[t] \in {"start", "acquire", "request", "backoff", "cooldown"} IN
    /\ outcome' = [outcome EXCEPT ![t] =
                      IF FetchReturned(t) THEN "list"
                      ELSE IF FetchRaised(t) THEN "raised"
                      ELSE "none"]
    /\ hist' = [hist EXCEPT ![t] =
                   IF pc[t] = "request" THEN HistAfter(@, kind)
                   ELSE IF during /\ pc[t] # "start" THEN @
                   ELSE "none"]
    /\ sent' = [sent EXCEPT ![t] =
                   IF ~during THEN 0
                   ELSE IF pc[t] = "start" THEN (IF RequestSent(t) THEN 1 ELSE 0)
                   ELSE IF RequestSent(t) THEN @ + 1
                   ELSE @]
    /\ asked' = [asked EXCEPT ![t] =
                    IF ~during THEN {}
                    ELSE (IF pc[t] = "start" THEN {} ELSE @)
                            \cup (IF RequestSent(t) THEN {StatusOf(t)} ELSE {})]
    /\ resps' = [resps EXCEPT ![t] =
                    IF pc[t] = "request" THEN Append(@, <<phase[t], kind>>)
                    ELSE IF during /\ pc[t] # "start" THEN @
                    ELSE <<>>]
    /\ IF pc[t] = "request" /\ kind = "ok"
       THEN \E b \in Bodies(t, FetchFeed) :
               /\ RequestReturns(t, b)
               /\ lastBody' = [lastBody EXCEPT ![t] = b]
       ELSE lastBody' = [lastBody EXCEPT ![t] = <<>>]

\* Observer of the opening cycle: the batch its fetch returned and the
\* positions of it for which notify was called, per iteration; and over all
\* iterations how often the match of rEdge was returned and notified.
TrackOpening ==
    LET t == "opening" IN
    /\ openBatch' = IF pc[t] = "start" THEN <<>>
                    ELSE IF FetchReturned(t) THEN batch'[t]
                    ELSE openBatch
    /\ openAt' = IF pc[t] = "start" THEN <<>>
                 ELSE IF NotifyCalled(t) THEN Append(openAt, idx[t])
                 ELSE openAt
    /\ openSeen' = IF FetchReturned(t)
                   THEN openSeen + Len(SelectSeq(batch'[t], LAMBDA r : r = rEdge))
                   ELSE openSeen
    /\ openNotified' = IF NotifyCalled(t) /\ Current(t) = rEdge
                       THEN openNotified + 1
                       ELSE openNotified
    /\ openings' = IF pc[t] = "start" THEN openings + 1 ELSE openings

\* Observer of the sink: _send_telegram_message posts the message and
\* Telegram accepts it ("ok"), or the post fails (HTTP error status, network
\* error, timeout) and the except clauses print the error ("failed"); either
\* way it returns None to notify
TrackSink(t) ==
    IF pc[t] = "notify"
    THEN delivery' \in {"ok", "failed"}
    ELSE delivery' = "none"

Offered(list) == {Fingerprint(list[i]) : i \in DOMAIN list} \cap FollowedFp

Bump(n) == Min(n + 1, 2)

\* Observer of two consecutive live iterations: follows a fingerprint from
\* an iteration in which it is offered while absent from the cache ("it1")
\* through the next iteration ("it2"), counting its notifications in obsN;
\* "checked" once both iterations ran to the end of their for loop.
ObsAtFetch(list) ==
    [f \in FollowedFp |->
        IF obs[f] = "mid" /\ f \in Offered(list) THEN "it2"
        ELSE IF f \in Offered(list) /\ f \notin notified_opportunities THEN "it1"
        ELSE "idle"]

ObsNAtFetch(list) ==
    [f \in FollowedFp |-> IF obs[f] = "mid" /\ f \in Offered(list) THEN obsN[f] ELSE 0]

ObsAtLoopEnd ==
    [f \in FollowedFp |->
        IF obs[f] = "it1" THEN "mid" ELSE IF obs[f] = "it2" THEN "checked" ELSE obs[f]]

TrackCache(t) ==
    IF t # "live" THEN UNCHANGED cacheHist
    ELSE
    LET rec == Current(t)
        f == Fingerprint(rec)
        called == NotifyCalled(t) /\ rec # Filler
        inserted == pc[t] = "notify"
    IN
    /\ notified' = IF called THEN [notified EXCEPT ![f] = Bump(@)] ELSE notified
    /\ obs' = IF FetchReturned(t) THEN ObsAtFetch(batch'[t])
              ELSE IF FetchRaised(t) \/ LoopRaised(t) THEN [g \in FollowedFp |-> "idle"]
              ELSE IF pc[t] = "process" /\ pc'[t] = "sleep" THEN ObsAtLoopEnd
              ELSE obs
    /\ obsN' = IF FetchReturned(t) THEN ObsNAtFetch(batch'[t])
               ELSE IF FetchRaised(t) \/ LoopRaised(t) THEN [g \in FollowedFp |-> 0]
               ELSE IF called /\ obs[f] \in {"it1", "it2"}
                    THEN [obsN EXCEPT ![f] = Bump(@)]
               ELSE obsN
    /\ evictedFp' =
          IF inserted
          THEN evictedFp \cup
               ((notified_opportunities \cup (IF rec = Filler THEN {} ELSE {f}))
                  \ notified_opportunities')
          ELSE evictedFp
    /\ IF ~inserted THEN lastInsert' = "none"
       ELSE IF CacheSize' = CacheSize + 1 THEN lastInsert' = "plain"
       ELSE IF rec = Filler
            THEN \E k \in BOOLEAN :
                   /\ k => notified_others' >= 1
                   /\ ~k => notified_others' < notified_others + 1
                   /\ lastInsert' = IF k THEN "evicted_kept" ELSE "evicted_lost"
       ELSE lastInsert' = IF f \in notified_opportunities' THEN "evicted_kept"
                          ELSE "evicted_lost"

----------------------------------------------------------------------------
(* OpeningEngine.run(): asyncio.gather of the two cycles                   *)

\* the steps of cycle t that handle no response
Quiet(t) ==
    \/ StartFetch(t)
    \/ AcquireDone(t)
    \/ BackoffDone(t)
    \/ CooldownDone(t)
    \/ LoopEnd(t)
    \/ NotifyDone(t)
    \/ SleepDone(t)
    \/ t = "opening" /\ OpeningStep
    \/ t = "live" /\ LiveStep

Cycle(t, feed) ==
    \/ Quiet(t)
    \/ \E kind \in RespKinds : Respond(t, feed, kind)

\* a step of cycle t in the scheduler
CycleNext(t) ==
    /\ Cycle(t, SchedFeed)
    /\ TrackErr(t)
    /\ UNCHANGED <<fetchHist, cacheHist, probe, sideHist>>

Next == \E t \in Tasks : CycleNext(t)

Spec == Init /\ [][Next]_vars

\* the event loop resumes every coroutine whose await is over; sleeps and
\* requests (which carry a timeout) end
FairSpec == Spec /\ \A t \in Tasks : WF_vars(CycleNext(t))

Other(t) == IF t = "opening" THEN "live" ELSE "opening"

\* one iteration at a time (the other cycle rests at the top of its loop),
\* with the history of the fetch
NextFetch ==
    \E t \in Tasks :
        /\ pc[Other(t)] = "start"
        /\ \/ Quiet(t) /\ TrackFetch(t, "none")
           \/ \E kind \in RespKinds : Respond(t, FetchFeed, kind) /\ TrackFetch(t, kind)
        /\ TrackErr(t)
        /\ UNCHANGED <<cacheHist, probe, sideHist>>

SpecFetch == Init /\ [][NextFetch]_vars

\* every await of the fetch ends: sleeps are finite and each request is
\* answered or times out (httpx timeout)
FairFetch == SpecFetch /\ WF_vars(NextFetch)

\* the process from its start: construction, then the two cycles
NextBoot ==
    \/ Construct /\ UNCHANGED <<iterErr, fetchHist, cacheHist, probe, sideHist>>
    \/ Next

SpecBoot == InitBoot /\ [][NextBoot]_vars

----------------------------------------------------------------------------
(* Market normaliser (providers.py, _extract_odds). Python strings are      *)
(* sequences of characters; a raw market is a descriptor with its list of   *)
(* outcomes, an outcome a name with a price in hundredths. The normalised   *)
(* mapping is a function from canonical keys to quotes.                     *)

\* Python strings are sequences of characters: the characters of a literal
Chars(s) ==
    CASE s = "winner" -> <<"w", "i", "n", "n", "e", "r">>
      [] s = "2-way" -> <<"2", "-", "w", "a", "y">>
      [] s = "match" -> <<"m", "a", "t", "c", "h">>
      [] s = "first blood" -> <<"f", "i", "r", "s", "t", " ", "b", "l", "o", "o", "d">>
      [] s = "first tower" -> <<"f", "i", "r", "s", "t", " ", "t", "o", "w", "e", "r">>
      [] s = "first turret" -> <<"f", "i", "r", "s", "t", " ", "t", "u", "r", "r", "e", "t">>
      [] s = "kill" -> <<"k", "i", "l", "l">>
      [] s = "total" -> <<"t", "o", "t", "a", "l">>
      [] s = "over" -> <<"o", "v", "e", "r">>
      [] s = "under" -> <<"u", "n", "d", "e", "r">>
      [] s = "dragon" -> <<"d", "r", "a", "g", "o", "n">>
      [] s = "baron" -> <<"b", "a", "r", "o", "n">>
      [] s = "inhibitor" -> <<"i", "n", "h", "i", "b", "i", "t", "o", "r">>
      [] s = "team1" -> <<"t", "e", "a", "m", "1">>
      [] s = "team2" -> <<"t", "e", "a", "m", "2">>
      [] s = "Match Winner 2-Way" -> <<"M", "a", "t", "c", "h", " ", "W", "i", "n", "n", "e", "r", " ", "2", "-", "W", "a", "y">>
      [] s = "First Blood" -> <<"F", "i", "r", "s", "t", " ", "B", "l", "o", "o", "d">>
      [] s = "First Turret" -> <<"F", "i", "r", "s", "t", " ", "T", "u", "r", "r", "e", "t">>
      [] s = "Total Kills Over/Under 25.5" -> <<"T", "o", "t", "a", "l", " ", "K", "i", "l", "l", "s", " ", "O", "v", "e", "r", "/", "U", "n", "d", "e", "r", " ", "2", "5", ".", "5">>
      [] s = "First Dragon" -> <<"F", "i", "r", "s", "t", " ", "D", "r", "a", "g", "o", "n">>
      [] s = "Map Handicap" -> <<"M", "a", "p", " ", "H", "a", "n", "d", "i", "c", "a", "p">>
      [] s = "Winner 2-Way First Blood" -> <<"W", "i", "n", "n", "e", "r", " ", "2", "-", "W", "a", "y", " ", "F", "i", "r", "s", "t", " ", "B", "l", "o", "o", "d">>
      [] s = "Total Kills" -> <<"T", "o", "t", "a", "l", " ", "K", "i", "l", "l", "s">>
      [] s = "Dragon Kills Over 4.5" -> <<"D", "r", "a", "g", "o", "n", " ", "K", "i", "l", "l", "s", " ", "O", "v", "e", "r", " ", "4", ".", "5">>
      [] s = "T1" -> <<"T", "1">>
      [] s = "GEN" -> <<"G", "E", "N">>
      [] s = "Over" -> <<"O", "v", "e", "r">>
      [] s = "Under" -> <<"U", "n", "d", "e", "r">>
      [] OTHER -> <<>>

\* the letters that occur in upper case in the feed's texts
Letters == {<<"B", "b">>, <<"D", "d">>, <<"E", "e">>, <<"F", "f">>, <<"G", "g">>,
            <<"H", "h">>, <<"K", "k">>, <<"M", "m">>, <<"N", "n">>, <<"O", "o">>,
            <<"T", "t">>, <<"U", "u">>, <<"W", "w">>}

\* str.lower()
Lower(str) ==
    [i \in DOMAIN str |->
        IF \E p \in Letters : p[1] = str[i]
        THEN (CHOOSE p \in Letters : p[1] = str[i])[2]
        ELSE str[i]]

\* sub in str
In(sub, str) ==
    \E i \in 1..(Len(str) - Len(sub) + 1) : SubSeq(str, i, i + Len(sub) - 1) = sub

Digits == {"0", "1", "2", "3", "4", "5", "6", "7", "8", "9"}

\* the end of the longest run of digits of str that starts at i (i - 1: none)
RunEnd(str, i) ==
    CHOOSE j \in (i - 1)..Len(str) :
        /\ \A k \in i..j : str[k] \in Digits
        /\ j = Len(str) \/ str[j + 1] \notin Digits

\* re.search(r'(\d+\.?\d*)', str): group(1) of the leftmost match, <<>> for None
Search(str) ==
    LET starts == {i \in DOMAIN str : str[i] \in Digits} IN
    IF starts = {} THEN <<>>
    ELSE LET i == CHOOSE s \in starts : \A o \in starts : s <= o
             j == RunEnd(str, i)
         IN  IF j < Len(str) /\ str[j + 1] = "."
             THEN SubSeq(str, i, RunEnd(str, j + 2))
             ELSE SubSeq(str, i, j)

\* _clean_market_name: the letters, digits and blanks of the name, its words
\* capitalised and joined
clean_market_name(market_name) ==
    LET kept == SelectSeq(market_name, LAMBDA c :
                    c \in Digits \cup {" "} \cup {p[2] : p \in Letters}
                      \cup {"a", "c", "i", "l", "p", "r", "s", "v", "y"})
        Cap(i) == IF (i = 1 \/ kept[i - 1] = " ")
                     /\ \E p \in Letters : p[2] = kept[i]
                  THEN (CHOOSE p \in Letters : p[2] = kept[i])[1]
                  ELSE kept[i]
    IN  SelectSeq([i \in DOMAIN kept |-> Cap(i)], LAMBDA c : c # " ")

\* result.get('odds') of an outcome without the field
Absent == 0 - 1

\* odds_data[key] = quote
Put(odds_data, key, quote) ==
    [k \in DOMAIN odds_data \cup {key} |-> IF k = key THEN quote ELSE odds_data[k]]

\* {a: results[i].get('odds'), b: results[j].get('odds')}: the later entry
\* of a dict display wins when the two labels are equal
Pair(a, i, b, j, results) ==
    [bare |-> FALSE,
     sides |-> [l \in {a, b} |-> IF l = b THEN results[j].odds ELSE results[i].odds]]

\* {'team1': results[0].get('odds'), 'team2': results[1].get('odds')}
team_pair(results) == Pair(Chars("team1"), 1, Chars("team2"), 2, results)

\* a label search that finds no outcome, so that list order always decides
NamedNever(word, results) == 0

\* the position of the last outcome whose lower-cased name contains `word`
\* and, for "under", not "over" (0: none)
Named(word, results) ==
    LET hits == {i \in DOMAIN results :
                    /\ In(Chars(word), Lower(results[i].name))
                    /\ word = "under" => ~In(Chars("over"), Lower(results[i].name))}
    IN  IF hits = {} THEN 0 ELSE CHOOSE i \in hits : \A o \in hits : o <= i

\* the total-kills rule
process_kills(market_name, results, odds_data) ==
    LET line == Search(market_name)
        byName == Named("over", results) # 0 \/ Named("under", results) # 0
        over == IF byName THEN Named("over", results) ELSE 1
        under == IF byName THEN Named("under", results) ELSE 2
    IN  IF line # <<>> /\ Len(results) >= 2 /\ over # 0 /\ under # 0
        THEN Put(odds_data, <<"KillsO/U", line>>,
                 Pair(Chars("over"), over, Chars("under"), under, results))
        ELSE odds_data

\* a normaliser whose dragon/baron/inhibitor rule comes before the total-kills rule
process_market_odds_reordered(market_name, results, odds_data) ==
    IF In(Chars("winner"), market_name)
       /\ (In(Chars("2-way"), market_name) \/ In(Chars("match"), market_name))
    THEN IF Len(results) < 2 THEN odds_data
         ELSE IF results[1].name # <<>> /\ results[2].name # <<>>
         THEN Put(odds_data, <<"ML", <<>>>>,
                  Pair(results[1].name, 1, results[2].name, 2, results))
         ELSE Put(odds_data, <<"ML", <<>>>>,
                  team_pair(results))
    ELSE IF In(Chars("first blood"), market_name)
    THEN IF Len(results) < 2 THEN odds_data
         ELSE Put(odds_data, <<"FirstBlood", <<>>>>,
                  team_pair(results))
    ELSE IF In(Chars("first tower"), market_name)
            \/ In(Chars("first turret"), market_name)
    THEN IF Len(results) < 2 THEN odds_data
         ELSE Put(odds_data, <<"FirstTower", <<>>>>,
                  team_pair(results))
    ELSE IF In(Chars("dragon"), market_name) \/ In(Chars("baron"), market_name)
            \/ In(Chars("inhibitor"), market_name)
    THEN IF Len(results) >= 2
         THEN Put(odds_data, <<"Cleaned", clean_market_name(market_name)>>,
                  team_pair(results))
         ELSE Put(odds_data, <<"Cleaned", clean_market_name(market_name)>>,
                  [bare |-> TRUE, price |-> results[1].odds])
    ELSE IF In(Chars("kill"), market_name)
            /\ (In(Chars("total"), market_name) \/ In(Chars("over"), market_name)
                  \/ In(Chars("under"), market_name))
    THEN process_kills(market_name, results, odds_data)
    ELSE odds_data

\* _process_market_odds: the if/elif chain; the mapping after the call
process_market_odds(market_name, results, odds_data) ==
    IF In(Chars("winner"), market_name)
       /\ (In(Chars("2-way"), market_name) \/ In(Chars("match"), market_name))
    THEN IF Len(results) < 2 THEN odds_data
         ELSE IF results[1].name # <<>> /\ results[2].name # <<>>
         THEN Put(odds_data, <<"ML", <<>>>>,
                  Pair(results[1].name, 1, results[2].name, 2, results))
         ELSE Put(odds_data, <<"ML", <<>>>>,
                  team_pair(results))
    ELSE IF In(Chars("first blood"), market_name)
    THEN IF Len(results) < 2 THEN odds_data
         ELSE Put(odds_data, <<"FirstBlood", <<>>>>,
                  team_pair(results))
    ELSE IF In(Chars("first tower"), market_name)
            \/ In(Chars("first turret"), market_name)
    THEN IF Len(results) < 2 THEN odds_data
         ELSE Put(odds_data, <<"FirstTower", <<>>>>,
                  team_pair(results))
    ELSE IF In(Chars("kill"), market_name)
            /\ (In(Chars("total"), market_name) \/ In(Chars("over"), market_name)
                  \/ In(Chars("under"), market_name))
    THEN process_kills(market_name, results, odds_data)
    ELSE IF In(Chars("dragon"), market_name) \/ In(Chars("baron"), market_name)
            \/ In(Chars("inhibitor"), market_name)
    THEN IF Len(results) >= 2
         THEN Put(odds_data, <<"Cleaned", clean_market_name(market_name)>>,
                  team_pair(results))
         ELSE Put(odds_data, <<"Cleaned", clean_market_name(market_name)>>,
                  [bare |-> TRUE, price |-> results[1].odds])
    ELSE odds_data

\* a loop body that starts the mapping afresh at a market without outcomes
extract_one_restarting(odd, monitored_markets, odds_data) ==
    IF odd.results = <<>> THEN <<>>
    ELSE IF monitored_markets # {}
            /\ ~\E market_type \in monitored_markets :
                   In(market_type, Lower(odd.market_name))
    THEN odds_data
    ELSE process_market_odds(Lower(odd.market_name), odd.results, odds_data)

\* one turn of the for loop of _extract_odds: markets without outcomes and
\* markets outside self.monitored_markets are skipped
extract_one(odd, monitored_markets, odds_data) ==
    IF odd.results = <<>> THEN odds_data
    ELSE IF monitored_markets # {}
            /\ ~\E market_type \in monitored_markets :
                   In(market_type, Lower(odd.market_name))
    THEN odds_data
    ELSE process_market_odds(Lower(odd.market_name), odd.results, odds_data)

\* the raw outcome prices of the feed, in hundredths (95 = 0.95)
RawPrices == {Absent, 0, 95, 100, 185}

RawNames == {<<Chars("T1"), Chars("GEN")>>, <<<<>>, <<>>>>, <<Chars("T1"), Chars("T1")>>,
             <<Chars("Over"), Chars("Under")>>, <<Chars("Under"), Chars("Over")>>,
             <<Chars("Over"), <<>>>>}

\* the outcome lists of a raw market: none, one or two outcomes, and three
\* outcomes of which the first is unlabelled
RawResults ==
    {<<>>} \cup {<<[name |-> <<>>, odds |-> p]>> : p \in RawPrices}
      \cup {<<[name |-> n[1], odds |-> p], [name |-> n[2], odds |-> q]>> :
               n \in RawNames, p \in RawPrices, q \in RawPrices}
      \cup {<<[name |-> <<>>, odds |-> 100], [name |-> Chars("Under"), odds |-> p],
              [name |-> Chars("Over"), odds |-> q]>> :
               p \in RawPrices, q \in RawPrices}

RawDescriptors ==
    {Chars("Match Winner 2-Way"), Chars("First Blood"), Chars("First Turret"),
     Chars("Total Kills Over/Under 25.5"), Chars("First Dragon"),
     Chars("Map Handicap"), Chars("Winner 2-Way First Blood"),
     Chars("Total Kills"), Chars("Dragon Kills Over 4.5")}

RawMarkets == [market_name : RawDescriptors, results : RawResults]

\* two well-formed markets that accompany the market under study
BaseMarkets ==
    {[market_name |-> Chars("Match Winner 2-Way"),
      results |-> <<[name |-> Chars("T1"), odds |-> 185],
                    [name |-> Chars("GEN"), odds |-> 195]>>],
     [market_name |-> Chars("Total Kills Over/Under 25.5"),
      results |-> <<[name |-> Chars("Over"), odds |-> 190],
                    [name |-> Chars("Under"), odds |-> 180]>>]}

\* _extract_odds is entered with a list of one or two raw markets, under
\* MARKET_TYPES unset or set to "kill"
InitNorm ==
    /\ InitSched /\ InitCache /\ InitLimiter /\ InitSide
    /\ \E m \in RawMarkets :
         probe \in [odds_list : {<<m>>} \cup {<<b, m>> : b \in BaseMarkets}
                                  \cup {<<m, b>> : b \in BaseMarkets},
                    monitored_markets : {{}, {Chars("kill")}},
                    odds_data : {<<>>},
                    i : {1}]

\* one turn of the for loop of _extract_odds
ExtractStep ==
    /\ probe.i <= Len(probe.odds_list)
    /\ probe' = [probe EXCEPT
                    !.odds_data = extract_one(probe.odds_list[probe.i],
                                              probe.monitored_markets, @),
                    !.i = @ + 1]
    /\ UNCHANGED <<environ, monitored_leagues, progVars, cacheVars, limVars,
                   iterErr, fetchHist, cacheHist, sideHist>>

SpecNorm == InitNorm /\ [][ExtractStep]_vars

\* fair_odds alone: the league means 27.0 and 2.0, 0.5 and 0.0, the lines
\* 0, 0.5 ... 3.5 and 171
Means == {[n |-> 0, s |-> 0], [n |-> 1, s |-> 0 - 1], [n |-> 1, s |-> 1],
          [n |-> 27, s |-> 0]}

Lines == 0..7 \cup {342}

InitPoisson ==
    /\ InitSched /\ InitCache /\ InitLimiter /\ InitSide
    /\ probe \in [avg_value : Means, line : Lines, called : {FALSE},
                  result : {Returned([sign |-> 0, abs |-> Zero],
                                     [sign |-> 0, abs |-> Zero])}]

FairOdds ==
    /\ ~probe.called
    /\ probe' = [probe EXCEPT !.called = TRUE,
                              !.result = fair_odds(probe.avg_value, probe.line)]
    /\ UNCHANGED <<environ, monitored_leagues, progVars, cacheVars, limVars,
                   iterErr, fetchHist, cacheHist, sideHist>>

SpecPoisson == InitPoisson /\ [][FairOdds]_vars

\* the limiter with the times at which acquire returned to its caller: probe
\* is the list of these times
InitRelease == InitSched /\ InitCache /\ InitLimiter /\ InitSide /\ probe = <<>>

\* acquire returns: its caller goes on to send its request now
Released == Append(probe, clock)

NextRelease ==
    /\ \/ \E t \in Tasks :
            Acquire(t) /\ probe' = IF lim'[t] = "waiting" THEN probe ELSE Released
       \/ \E t \in Tasks : AcquireWake(t) /\ probe' = Released
       \/ Tick /\ probe' = probe
    /\ UNCHANGED <<iterErr, fetchHist, cacheHist, sideHist>>

SpecRelease == InitRelease /\ [][NextRelease]_vars

\* the fetch with the limiter inside it, one iteration at a time: probe
\* counts, per cycle, the timestamps its fetch has appended to the limiter
\* and the HTTP requests it has sent
NoSlots == [t \in Tasks |-> [slots |-> 0, sent |-> 0]]

InitSlots == InitSched /\ InitCache /\ InitLimiter /\ InitSide /\ probe = NoSlots

\* the feed holds no match
SlotFeed == {}

\* the timestamps the step appends to self.requests
Appended(t) ==
    IF pc[t] = "start" THEN Len(requests') - Len(Pruned(clock))
    ELSE Len(requests') - Len(requests)

TrackSlots(t) ==
    probe' = [probe EXCEPT ![t] =
                 [slots |-> (IF pc[t] = "start" THEN 0 ELSE @.slots) + Appended(t),
                  sent |-> (IF pc[t] = "start" THEN 0 ELSE @.sent)
                              + (IF RequestSent(t) THEN 1 ELSE 0)]]

NextSlots ==
    \/ \E t \in Tasks :
         /\ pc[Other(t)] = "start"
         /\ \/ StartFetchLimited(t)
            \/ AcquireDoneLimited(t)
            \/ \E kind \in RespKinds : Respond(t, SlotFeed, kind)
            \/ BackoffDone(t)
            \/ CooldownDone(t)
            \/ LoopEnd(t)
            \/ SleepDone(t)
         /\ TrackSlots(t)
         /\ TrackErr(t)
         /\ UNCHANGED <<fetchHist, cacheHist, sideHist>>
    \/ Tick /\ UNCHANGED <<iterErr, fetchHist, cacheHist, probe, sideHist>>

SpecSlots == InitSlots /\ [][NextSlots]_vars

\* the live cycle alone with the record of its iteration: probe holds the
\* batch the fetch returned, the cache as it was then, the positions for
\* which notify was called and the position whose analysis raised (0: none),
\* until the next fetch returns
NoIteration == [fetched |-> <<>>, before |-> {}, called |-> {}, raised |-> 0]

InitLive == InitSched /\ InitCache /\ InitLimiter /\ InitSide /\ probe = NoIteration

TrackLive ==
    probe' =
        IF FetchReturned("live")
        THEN [fetched |-> batch'["live"], before |-> notified_opportunities,
              called |-> {}, raised |-> 0]
        ELSE IF NotifyCalled("live")
        THEN [probe EXCEPT !.called = @ \cup {idx["live"]}]
        ELSE IF InLoop("live") /\ AnalysisRaises(Current("live")) /\ probe.raised = 0
        THEN [probe EXCEPT !.raised = idx["live"]]
        ELSE probe

NextLive ==
    /\ \/ StartFetch("live")
       \/ AcquireDone("live")
       \/ BackoffDone("live")
       \/ CooldownDone("live")
       \/ LoopEnd("live")
       \/ NotifyDone("live")
       \/ SleepDone("live")
       \/ LiveStep
       \/ \E kind \in RespKinds : Respond("live", LiveFeed, kind)
    /\ TrackLive
    /\ TrackErr("live")
    /\ UNCHANGED <<fetchHist, cacheHist, sideHist>>

SpecLive == InitLive /\ [][NextLive]_vars

\* has_edge alone, on prices in hundredths (0: None) and thresholds in percent
Quotes == {0, 105, 168, 185, 189, 195, 200, 207, 210, 230}

FairPrices == {0, 100, 160, 180, 192, 200, 208}

Thresholds == {EdgeThresholdPct, 15}

InitEdge ==
    /\ InitSched /\ InitCache /\ InitLimiter /\ InitSide
    /\ probe \in [market_odd : Quotes, fair_odd : FairPrices, threshold : Thresholds,
                  flagged : {"uncalled"}]

Detect ==
    /\ probe.flagged = "uncalled"
    /\ probe' = [probe EXCEPT !.flagged =
                    IF has_edge_at(probe.market_odd, probe.fair_odd, probe.threshold)
                    THEN "yes" ELSE "no"]
    /\ UNCHANGED <<environ, monitored_leagues, progVars, cacheVars, limVars,
                   iterErr, fetchHist, cacheHist, sideHist>>

SpecEdge == InitEdge /\ [][Detect]_vars

\* the fingerprints the live cycle can have left in the cache
OpeningCaches == SUBSET FollowedFp

InitOpeningCycle ==
    /\ InitSched /\ InitLimiter /\ InitSide
    /\ probe = NoProbe
    /\ notified_opportunities \in OpeningCaches
    /\ notified_others = 0
    /\ notified = [f \in FollowedFp |-> 0]
    /\ evictedFp = {}
    /\ lastInsert = "none"
    /\ obs = [f \in FollowedFp |-> "idle"]
    /\ obsN = [f \in FollowedFp |-> 0]

\* the opening cycle alone, for MaxOpenings iterations, with its history
NextOpening ==
    /\ \/ openings < MaxOpenings /\ StartFetch("opening")
       \/ AcquireDone("opening")
       \/ BackoffDone("opening")
       \/ CooldownDone("opening")
       \/ LoopEnd("opening")
       \/ NotifyDone("opening")
       \/ SleepDone("opening")
       \/ OpeningStep
       \/ \E kind \in RespKinds : Respond("opening", FetchFeed, kind)
    /\ TrackOpening
    /\ TrackErr("opening")
    /\ UNCHANGED <<fetchHist, cacheHist, probe, delivery>>

SpecOpening == InitOpeningCycle /\ [][NextOpening]_vars

\* the live cycle alone, with the outcome of its deliveries
NextSink ==
    /\ \/ StartFetch("live")
       \/ AcquireDone("live")
       \/ BackoffDone("live")
       \/ CooldownDone("live")
       \/ LoopEnd("live")
       \/ NotifyDone("live")
       \/ SleepDone("live")
       \/ LiveStep
       \/ \E kind \in RespKinds : Respond("live", FetchFeed, kind)
    /\ TrackSink("live")
    /\ TrackErr("live")
    /\ UNCHANGED <<fetchHist, cacheHist, probe, openHist>>

SpecSink == Init /\ [][NextSink]_vars

\* the live cycle alone, with the history of the cache
NextCache ==
    /\ \/ StartFetch("live")
       \/ AcquireDone("live")
       \/ BackoffDone("live")
       \/ CooldownDone("live")
       \/ LoopEnd("live")
       \/ NotifyDone("live")
       \/ SleepDone("live")
       \/ LiveStep
       \/ \E kind \in RespKinds : Respond("live", CacheFeed, kind)
    /\ TrackCache("live")
    /\ TrackErr("live")
    /\ UNCHANGED <<fetchHist, probe, sideHist>>

SpecCache == Init /\ [][NextCache]_vars

\* the limiter alone: both cycles call acquire, time passes
NextLimiter ==
    /\ \/ \E t \in Tasks : Acquire(t)
       \/ \E t \in Tasks : AcquireWake(t)
       \/ Tick
    /\ UNCHANGED <<iterErr, fetchHist, cacheHist, probe, sideHist>>

SpecLimiter == Init /\ [][NextLimiter]_vars

----------------------------------------------------------------------------
(* Properties of the fetch client (SpecFetch)                              *)

\* C1: whatever the feed answers, with or without a league filter, the fetch
\* hands the cycle a list and never raises to it.
C1_FetchNeverRaises == \A t \in Tasks : outcome[t] # "raised"

\* C9: a fetch all of whose attempts ended in a timeout or a 5xx response,
\* until the retry budget was used up, ends with the empty list and raises
\* nothing.
C9_TransientExhaustedYieldsEmpty ==
    \A t \in Tasks :
        (outcome[t] # "none" /\ hist[t] = "transient")
            => (outcome[t] = "list" /\ batch[t] = <<>>)

\* C10: a 429 response is followed by the cooldown and by another request:
\* no fetch ends, with a list or with an error, on a 429 as its last response.
C10_RateLimitedIsRetried ==
    \A t \in Tasks : outcome[t] # "none" => hist[t] # "s429"

\* the last response of the fetch, "none" before the first
LastResp(t) == IF resps[t] = <<>> THEN <<"none", "none">> ELSE resps[t][Len(resps[t])]

\* a 4xx response that is not the 400 of a league-filtered request
ClientError(r) == r[2] = "s4xx" \/ r = <<"unfiltered", "s400">>

\* C11: a 401/403/404 response, or a 400 to an unfiltered request, is not
\* retried (it is the last response of its fetch), and the fetch it ends
\* returns the empty list, with a league filter as well as without.
C11_ClientErrorYieldsEmpty ==
    \A t \in Tasks :
        /\ \A i \in 1..(Len(resps[t]) - 1) : ~ClientError(resps[t][i])
        /\ ClientError(LastResp(t)) => (outcome[t] = "list" /\ batch[t] = <<>>)

\* C12: with a league filter, the step that receives a 400 to the filtered
\* request sends exactly one unfiltered request, at most once per fetch;
\* every other unfiltered request is the retry of an unfiltered request that
\* failed transiently; and a filtered request that succeeded ends the fetch
\* with no unfiltered request at all.
C12_OneFallbackPerFilter400 ==
    \A t \in Tasks :
        monitored_leagues # {} =>
            LET r == resps[t] IN
            /\ Cardinality({i \in DOMAIN r : r[i] = <<"filtered", "s400">>}) <= 1
            /\ \A i \in DOMAIN r :
                 r[i][1] = "unfiltered" =>
                    /\ i > 1
                    /\ \/ r[i - 1] = <<"filtered", "s400">>
                       \/ r[i - 1][1] = "unfiltered" /\ Transient(r[i - 1][2])
            /\ LastResp(t) = <<"filtered", "s400">> =>
                    /\ pc[t] = "request" /\ phase[t] = "unfiltered"
                    /\ sent[t] = Len(r) + 1
            /\ (LastResp(t)[1] = "filtered" /\ LastResp(t)[2] \in {"ok", "nonlist"}) =>
                    /\ outcome[t] = "list"
                    /\ sent[t] = Len(r)

C12_Witness ==
    \E t \in Tasks :
        /\ monitored_leagues # {}
        /\ resps[t] = << <<"filtered", "s400">>, <<"unfiltered", "ok">> >>
        /\ sent[t] = 2
        /\ outcome[t] = "list"
        /\ batch[t] # <<>>

\* how many times the record rec occurs in the list
Count(list, rec) == Cardinality({i \in DOMAIN list : list[i] = rec})

\* the call returned a list made from a 200 response to the fallback request
FallbackReturned(t) ==
    /\ monitored_leagues # {}
    /\ outcome[t] = "list"
    /\ LastResp(t) = <<"unfiltered", "ok">>

\* C13: after the fallback with monitored leagues configured, the records
\* returned are exactly the normalised records of the response whose league
\* slug is monitored: none of another league is returned, none of a monitored
\* league is lost.
C13_FallbackKeepsMonitoredOnly ==
    \A t \in Tasks :
        FallbackReturned(t) =>
            /\ \A i \in DOMAIN batch[t] :
                 /\ batch[t][i].slug \in monitored_leagues
                 /\ Formats(batch[t][i], StatusOf(t))
            /\ \A rec \in FetchFeed :
                 (Formats(rec, StatusOf(t)) /\ rec.slug \in monitored_leagues)
                    => Count(batch[t], rec) = Count(lastBody[t], rec)

C13_Witness ==
    \E t \in Tasks :
        /\ FallbackReturned(t)
        /\ lastBody[t] = <<rForeign, rEdge>>
        /\ batch[t] = <<rEdge>>

\* the record is one the call hands back when the response holds it
Kept(t, rec) ==
    /\ rec.wf
    /\ StatusOf(t) = "upcoming" \/ HasOdds(rec)
    /\ monitored_leagues = {} \/ rec.slug \in monitored_leagues

\* C14: in a successful response a malformed record is skipped and the rest
\* of the batch is not affected: the call returns the well-formed records of
\* the response (those of a monitored league, and with odds unless upcoming)
\* in the order of the feed, no malformed one among them.
C14_MalformedSkippedRestKept ==
    \A t \in Tasks :
        (outcome[t] = "list" /\ LastResp(t)[2] = "ok") =>
            /\ batch[t] = SelectSeq(lastBody[t], LAMBDA r : Kept(t, r))
            /\ \A i \in DOMAIN batch[t] : batch[t][i].wf
            /\ (t = "opening" /\ monitored_leagues = {}) =>
                  batch[t] = SelectSeq(lastBody[t], LAMBDA r : r.wf)

C14_Witness ==
    /\ outcome["opening"] = "list"
    /\ lastBody["opening"] = <<rBroken, rNoOdds>>
    /\ batch["opening"] = <<rNoOdds>>

\* C19: a live iteration requests the status running and the status recent
\* before it analyses the records it was given.
C19_LiveFetchesRunningAndRecent ==
    outcome["live"] = "list" => asked["live"] = {"running", "recent"}

\* C20: every record get_live_odds returns has a quoted market, while
\* get_upcoming_odds returns an upcoming record also when it has none: of
\* the response that ended the fetch it returns every well-formed record of
\* a monitored league that has no odds.
C20_LiveNeedsOddsUpcomingDoesNot ==
    /\ outcome["live"] = "list" =>
          \A i \in DOMAIN batch["live"] : HasOdds(batch["live"][i])
    /\ (outcome["opening"] = "list" /\ LastResp("opening")[2] = "ok") =>
          \A rec \in FetchFeed :
             (rec.wf /\ ~HasOdds(rec)
                /\ (monitored_leagues = {} \/ rec.slug \in monitored_leagues))
                => Count(batch["opening"], rec) = Count(lastBody["opening"], rec)

C20_Witness ==
    /\ outcome["live"] = "list"
    /\ lastBody["live"] = <<rNoOdds, rEdge>>
    /\ batch["live"] = <<rEdge>>

\* the responses so far to the request of phase p of the fetch
Attempts(t, p) == SelectSeq(resps[t], LAMBDA r : r[1] = p)

\* C28: within one request at most max_retries + 1 attempts are sent; a
\* retry follows a timeout or a 5xx response only, timeouts and 5xx responses
\* count together, and the wait before the n-th retry is 2^(n-1) seconds.
C28_BoundedRetriesDoublingWait ==
    \A t \in Tasks :
        /\ \A p \in {"filtered", "unfiltered"} : Len(Attempts(t, p)) <= MaxRetries + 1
        /\ pc[t] = "backoff" =>
              /\ \A i \in DOMAIN Attempts(t, phase[t]) :
                    Transient(Attempts(t, phase[t])[i][2])
              /\ Len(Attempts(t, phase[t])) <= MaxRetries
              /\ BackoffWait(t) = 2 ^ (Len(Attempts(t, phase[t])) - 1)

\* the third retry of a request, after a timeout and 5xx responses: a wait
\* of four seconds
C28_Witness ==
    \E t \in Tasks :
        /\ pc[t] = "backoff"
        /\ Len(Attempts(t, phase[t])) = 3
        /\ {Attempts(t, phase[t])[i][2] : i \in 1..3} = {"timeout", "s5xx"}
        /\ BackoffWait(t) = 4

----------------------------------------------------------------------------
(* Properties of the deduplication cache (SpecCache)                       *)

\* C2 as stated: a LIVE notification goes out at most once per fingerprint.
C2_AtMostOncePerFingerprint == \A f \in FollowedFp : notified[f] <= 1

\* C2, amended: a fingerprint is notified a second time only after an
\* eviction removed it from the cache.
C2_RenotifiedOnlyAfterEviction ==
    \A f \in FollowedFp : notified[f] >= 2 => f \in evictedFp

C2_Witness == \E f \in FollowedFp : notified[f] >= 2 /\ f \in evictedFp

\* C3: a fingerprint offered by two consecutive live iterations, absent from
\* the cache before the first, is notified exactly once over the two.
C3_TwoIterationsNotifyOnce ==
    \A f \in FollowedFp : obs[f] = "checked" => obsN[f] = 1

C5_JustInsertedKept == lastInsert # "evicted_lost"

----------------------------------------------------------------------------
(* Properties of the rate limiter (SpecLimiter)                            *)

\* C6: the recorded timestamps within the rolling window never number more
\* than max_requests.
C6_WindowWithinBudget == Cardinality(InWindow) <= MaxRequests

----------------------------------------------------------------------------
(* Properties of the scheduler (Spec, FairSpec)                            *)

\* C7: every cycle starts a new iteration infinitely often, and an iteration
\* ended by an exception is followed by the sleep and the next iteration.
C7_EveryCycleKeepsIterating ==
    \A t \in Tasks :
        /\ []<>(pc[t] = "start")
        /\ []<>(pc[t] # "start")
        /\ (iterErr[t] /\ pc[t] = "sleep") ~> (pc[t] = "start")

C7_Witness ==
    /\ iterErr["live"] /\ pc["live"] = "start"
    /\ iterErr["opening"] /\ pc["opening"] = "start"

\* C8: wherever the other cycle stands (suspended at an await or after a
\* failed iteration), a cycle has a step it can take.
C8_NeitherBlocksTheOther == \A t \in Tasks : ENABLED CycleNext(t)

C8_Witness ==
    \E t \in Tasks :
        /\ pc[t] \in {"acquire", "backoff", "cooldown"}
        /\ pc[Other(t)] = "sleep" /\ iterErr[Other(t)]
----------------------------------------------------------------------------
(* Properties of the construction (SpecBoot)                               *)

Unbuilt == \A t \in Tasks : pc[t] \in {"new", "config_error"}

Failed == \A t \in Tasks : pc[t] = "config_error"

\* C15 as stated: without a credential the construction fails before any
\* rate-limiter slot is taken or request is sent, and nothing else is fatal:
\* the process halts only for the missing credential.
C15_OnlyMissingCredentialFatal ==
    /\ ~environ.token => Unbuilt
    /\ Failed => ~environ.token

\* C15, amended: without a credential, or with a numeric setting that is no
\* integer, the construction fails before any rate-limiter slot is taken or
\* request is sent; the process halts for nothing else, and once it is
\* constructed every cycle always has a step to take.
C15_OnlyConfigurationFatal ==
    /\ (~environ.token \/ ~environ.numeric) => (Unbuilt /\ requests = <<>>)
    /\ Failed => (~environ.token \/ ~environ.numeric)
    /\ \A t \in Tasks : pc[t] \notin {"new", "config_error"} => ENABLED CycleNext(t)
    /\ (\E t \in Tasks : pc[t] = "config_error") => Failed

C15_Witness ==
    /\ ~environ.token /\ environ.numeric
    /\ Failed
    /\ requests = <<>>

----------------------------------------------------------------------------
(* Properties of the edge detector (SpecEdge, Spec)                        *)

\* (quoted - fair) / fair > threshold, of the decimal prices
EdgeExceeds(q, f, thr) == f # 0 /\ 100 * (q - f) > thr * f

\* C16: has_edge flags a quoted side exactly when (quoted - fair) / fair is
\* strictly greater than the threshold; an edge equal to the threshold is not
\* flagged, and neither is a side without a quote.
C16_FlaggedIffEdgeExceeds ==
    probe.flagged # "uncalled" =>
        (probe.flagged = "yes"
            <=> (probe.market_odd # 0
                 /\ EdgeExceeds(probe.market_odd, probe.fair_odd, probe.threshold)))

\* an entry {current, fair, edge} whose edge exceeds the threshold
IsOpportunity(entry) ==
    /\ DOMAIN entry = {"key", "current", "fairp"}
    /\ has_edge(entry.current, entry.fairp)

\* C17: every entry of the odds mapping of every event handed to the
\* notifier, OPENING as well as LIVE, is an opportunity whose edge exceeds
\* the threshold.
C17_EventsCarryOnlyOpportunities ==
    \A t \in Tasks :
        pc[t] = "notify" => \A entry \in Event(t).odds : IsOpportunity(entry)

\* C18: for the upcoming match quoting {A: 1.85, B: 1.95} in a league whose
\* heuristic gives {A: 0.52, B: 0.48}, no side has an edge, and the opening
\* cycle sends no notification for the match.
C18_NoEdgeNoOpeningNotification ==
    /\ find_value_opportunities(rNoEdge) = {}
    /\ ~(pc["opening"] = "notify" /\ Current("opening") = rNoEdge)

\* C27: the live cycle's analysis of a match that carries a total-kills
\* over/under market completes without raising: the step that analyses it
\* does not leave the for loop through the except clause.
C27_KillsMarketAnalysed ==
    [][InLoop("live") /\ Current("live").kills => ~LoopRaised("live")]_vars

----------------------------------------------------------------------------
(* Properties of the opening cycle (SpecOpening)                           *)

\* the edge detector finds an opportunity in the match
Carries(rec) == ~AnalysisRaises(rec) /\ find_value_opportunities(rec) # {}

\* how often notify was called for position i of the opening batch
NotifiedAt(i) == Cardinality({j \in DOMAIN openAt : openAt[j] = i})

\* C21: in an opening iteration no match is notified twice, and when the
\* iteration is over every match of the fetched batch that carries an
\* opportunity was notified exactly once, at whatever position it stands.
C21_OpportunityMatchNotifiedOnce ==
    /\ \A i \in DOMAIN openBatch : NotifiedAt(i) <= 1
    /\ pc["opening"] = "sleep" =>
          \A i \in DOMAIN openBatch : Carries(openBatch[i]) => NotifiedAt(i) = 1

C21_Witness ==
    /\ pc["opening"] = "sleep"
    /\ openBatch = <<rNoEdge, rEdge>>
    /\ Carries(rEdge)
    /\ NotifiedAt(2) = 1

\* C22: the steps of the opening cycle leave the deduplication cache as it
\* is, and whatever the cache holds, between two opening iterations the
\* match was notified as often as the opening fetches returned it: k times
\* over k iterations that offer it.
C22_OpeningAppliesNoDedup ==
    /\ [](pc["opening"] \in {"sleep", "start"} => openNotified = openSeen)
    /\ [][cacheVars' = cacheVars]_vars

C22_Witness ==
    /\ pc["opening"] = "sleep"
    /\ Fingerprint(rEdge) \in notified_opportunities
    /\ openings >= 2
    /\ openSeen = openings
    /\ openNotified = openings
----------------------------------------------------------------------------
(* Properties of the sink (SpecSink)                                       *)

\* the match whose notify call is just over
JustNotified == batch["live"][idx["live"] - 1]

\* C23: when the delivery of a LIVE notification has failed, the fingerprint
\* of its match is not in the deduplication cache.
C23_InsertedOnlyAfterDelivery ==
    delivery = "failed" => Fingerprint(JustNotified) \notin notified_opportunities

----------------------------------------------------------------------------
(* Properties of the Poisson fair prices (SpecPoisson)                     *)

\* the side is priced as the guard of fair_odds prescribes
PricedByGuard(prob, price) ==
    IF prob.sign > 0
    THEN price.priced /\ price.value = FloatDiv(One, prob.abs)
    ELSE ~price.priced

\* C25: for every mean and line, fair_odds returns without dividing by zero;
\* a side whose probability is 0 gets no price, a side whose probability is
\* positive the price 1 / P(side); the mean 0 yields no over price.
C25_SidesPricedOrAbsent ==
    probe.called =>
        /\ probe.result.raised = ""
        /\ PricedByGuard(probe.result.prob_over, probe.result.over)
        /\ PricedByGuard(probe.result.prob_under, probe.result.under)
        /\ probe.avg_value.n = 0 => ~probe.result.over.priced

\* |a - b| < 2^-51, two units in the last place of 1.0
Close(a, b) ==
    \/ a = b
    \/ FloatLess(a, b) /\ FloatLess(FloatMinus(b, a), [m |-> <<1>>, e |-> 0 - 51])
    \/ FloatLess(b, a) /\ FloatLess(FloatMinus(a, b), [m |-> <<1>>, e |-> 0 - 51])

\* n / scale - 1 / scale < x < n / scale + 1 / scale
About(x, n, scale) ==
    FloatLess(Double(n - 1, scale), x) /\ FloatLess(x, Double(n + 1, scale))

\* the side's price is the reciprocal of its probability
Reciprocal(prob, price) ==
    price.priced => price.value = FloatDiv(One, prob.abs)

\* the side's price times its probability is 1, up to the rounding
PriceTimesProbability(prob, price) ==
    Close(FloatTimes(price.value, prob.abs), One)

\* C26: P(under) is the Poisson mass of the counts 0..floor(L) and P(over)
\* is 1 - P(under): the two sum to 1 and each fair price is the reciprocal of
\* its probability (up to the rounding of the doubles); for the mean 2.0 and
\* the line 1, each price times its probability is 1, P(under) is about
\* 0.4060, the fair under price about 2.463 and the fair over price about
\* 1.683.
C26_UnderIsMassUpToLine ==
    probe.called /\ probe.result.raised = "" =>
        /\ probe.result.prob_under.sign > 0
        /\ Close(probe.result.prob_under.abs,
                 SumFrom(probe.avg_value, 0, 0..(probe.line \div 2), Zero))
        /\ IF probe.result.prob_over.sign < 0
           THEN FloatMinus(probe.result.prob_under.abs, probe.result.prob_over.abs) = One
           ELSE FloatPlus(probe.result.prob_over.abs, probe.result.prob_under.abs) = One
        /\ Reciprocal(probe.result.prob_over, probe.result.over)
        /\ Reciprocal(probe.result.prob_under, probe.result.under)
        /\ probe.avg_value = [n |-> 1, s |-> 1] /\ probe.line = 2 =>
             /\ PriceTimesProbability(probe.result.prob_over, probe.result.over)
             /\ PriceTimesProbability(probe.result.prob_under, probe.result.under)
             /\ About(probe.result.prob_under.abs, 4060, 10000)
             /\ About(probe.result.under.value, 2463, 1000)
             /\ About(probe.result.over.value, 1683, 1000)

\* fair_odds returned the two prices for the mean 2.0 and the line 1
C26_Witness ==
    /\ probe.called
    /\ probe.avg_value = [n |-> 1, s |-> 1]
    /\ probe.line = 2
    /\ probe.result.raised = ""
    /\ probe.result.over.priced
    /\ probe.result.under.priced

----------------------------------------------------------------------------
(* Properties of the market normaliser (SpecNorm)                          *)

\* the prices a quote stores
Prices(quote) ==
    IF quote.bare THEN {quote.price}
    ELSE {quote.sides[l] : l \in DOMAIN quote.sides}

\* C24: every price stored in a normalised quote is absent or greater than
\* 1.0, whatever raw prices the feed delivers.
C24_StoredPriceAbsentOrAboveOne ==
    \A key \in DOMAIN probe.odds_data :
        \A p \in Prices(probe.odds_data[key]) : p = Absent \/ p > 100

\* the condition of the r-th rule of the normaliser, in the order of the
\* spec: match winner, first blood, first tower/turret, total kills
\* over/under, dragon/baron/inhibitor
RuleMatches(r, name) ==
    CASE r = 1 -> In(Chars("winner"), name)
                    /\ (In(Chars("2-way"), name) \/ In(Chars("match"), name))
      [] r = 2 -> In(Chars("first blood"), name)
      [] r = 3 -> In(Chars("first tower"), name) \/ In(Chars("first turret"), name)
      [] r = 4 -> In(Chars("kill"), name)
                    /\ (In(Chars("total"), name) \/ In(Chars("over"), name)
                          \/ In(Chars("under"), name))
      [] r = 5 -> In(Chars("dragon"), name) \/ In(Chars("baron"), name)
                    \/ In(Chars("inhibitor"), name)

\* the first rule in priority order that matches the descriptor (0: none)
FirstRule(name) ==
    IF \E r \in 1..5 : RuleMatches(r, name)
    THEN CHOOSE r \in 1..5 :
            RuleMatches(r, name) /\ \A q \in 1..(r - 1) : ~RuleMatches(q, name)
    ELSE 0

RuleKey == <<"ML", "FirstBlood", "FirstTower", "KillsO/U", "Cleaned">>

\* the raw market the next turn of the loop normalises
Turn == probe.odds_list[probe.i]

\* the keys whose entry the turn writes
Written == {k \in DOMAIN probe'.odds_data :
               k \notin DOMAIN probe.odds_data
                 \/ probe'.odds_data[k] # probe.odds_data[k]}

\* C29: a turn of the normaliser applies the first rule in priority order
\* that matches the descriptor and no other: it writes at most one key, the
\* key is that of the first matching rule, and the quote written is the one
\* the descriptor and its outcome list yield on an empty mapping, whatever
\* was normalised before.
C29_FirstMatchingRuleOnly ==
    [][/\ Cardinality(Written) <= 1
       /\ DOMAIN probe.odds_data \subseteq DOMAIN probe'.odds_data
       /\ \A k \in Written :
            /\ FirstRule(Lower(Turn.market_name)) # 0
            /\ k[1] = RuleKey[FirstRule(Lower(Turn.market_name))]
            /\ probe'.odds_data[k] =
                 process_market_odds(Lower(Turn.market_name), Turn.results, <<>>)[k]]_vars

\* a descriptor that matches both the total-kills and the dragon rule was
\* normalised after another market, under the total-kills key
C29_Witness ==
    /\ probe.i = 3
    /\ probe.odds_list[2].market_name = Chars("Dragon Kills Over 4.5")
    /\ {k[1] : k \in DOMAIN probe.odds_data} = {"ML", "KillsO/U"}

\* C30: a raw market whose descriptor matches no rule, or whose outcome list
\* is empty, is dropped: the turn leaves the mapping as it was.
C30_UnmatchedOrEmptyDropped ==
    [][FirstRule(Lower(Turn.market_name)) = 0 \/ Turn.results = <<>>
         => probe'.odds_data = probe.odds_data]_vars

\* an unrecognised market with two outcomes, and a market without outcomes,
\* each normalised after the match-winner market, which is still there
C30_Witness ==
    /\ probe.i = 3
    /\ \/ /\ probe.odds_list[2].market_name = Chars("Map Handicap")
          /\ Len(probe.odds_list[2].results) = 2
       \/ /\ probe.odds_list[2].market_name = Chars("First Blood")
          /\ probe.odds_list[2].results = <<>>
    /\ DOMAIN probe.odds_data = {<<"ML", <<>>>>}
    /\ probe.odds_data[<<"ML", <<>>>>].sides[Chars("T1")] = 185
\* the outcomes of the turn's list whose lower-cased name carries the label
\* (an outcome carrying "over" is never taken as "under")
Labelled(word) ==
    {i \in DOMAIN Turn.results :
        /\ In(Chars(word), Lower(Turn.results[i].name))
        /\ word = "under" => ~In(Chars("over"), Lower(Turn.results[i].name))}

\* the turn normalises a count-over-under market: the total-kills rule is the
\* first that matches, the descriptor holds a line and the list two outcomes
KillsTurn ==
    /\ FirstRule(Lower(Turn.market_name)) = 4
    /\ Search(Lower(Turn.market_name)) # <<>>
    /\ Len(Turn.results) >= 2
    /\ \/ probe.monitored_markets = {}
       \/ \E m \in probe.monitored_markets : In(m, Lower(Turn.market_name))

KillsKey == <<"KillsO/U", Search(Lower(Turn.market_name))>>

\* C31: for a count-over-under market the over and under prices stored are
\* those of the outcomes labelled over and under, wherever they stand in the
\* list; the first outcome is taken as over and the second as under only
\* when no outcome carries either label, and a list in which only one of
\* the two labels is found stores nothing.
C31_OverUnderByLabelThenOrder ==
    [][KillsTurn =>
         IF Labelled("over") # {} /\ Labelled("under") # {}
         THEN /\ KillsKey \in DOMAIN probe'.odds_data
              /\ \E o \in Labelled("over"), u \in Labelled("under") :
                   /\ probe'.odds_data[KillsKey].sides[Chars("over")] = Turn.results[o].odds
                   /\ probe'.odds_data[KillsKey].sides[Chars("under")] = Turn.results[u].odds
         ELSE IF Labelled("over") = {} /\ Labelled("under") = {}
         THEN /\ KillsKey \in DOMAIN probe'.odds_data
              /\ probe'.odds_data[KillsKey].sides[Chars("over")] = Turn.results[1].odds
              /\ probe'.odds_data[KillsKey].sides[Chars("under")] = Turn.results[2].odds
         ELSE probe'.odds_data = probe.odds_data]_vars

\* a count-over-under market whose list reads under 0.95, over 1.85 was
\* normalised: the over price stored is that of the second outcome
C31_Witness ==
    /\ probe.i = 2
    /\ FirstRule(Lower(probe.odds_list[1].market_name)) = 4
    /\ Len(probe.odds_list[1].results) = 2
    /\ probe.odds_list[1].results[1] = [name |-> Chars("Under"), odds |-> 95]
    /\ probe.odds_list[1].results[2] = [name |-> Chars("Over"), odds |-> 185]
    /\ \E k \in DOMAIN probe.odds_data :
         /\ k[1] = "KillsO/U"
         /\ probe.odds_data[k].sides[Chars("over")] = 185
         /\ probe.odds_data[k].sides[Chars("under")] = 95

\* the calls of acquire that returned within the time_window seconds that
\* begin with the return at position i
ReleasedWithin(i) ==
    {j \in DOMAIN probe : probe[j] >= probe[i] /\ probe[j] - probe[i] < TimeWindow}

\* C32: within any interval of time_window seconds, acquire returns to at
\* most max_requests callers, in every interleaving of the two cycles.
C32_ReleasesWithinBudget ==
    \A i \in DOMAIN probe : Cardinality(ReleasedWithin(i)) <= MaxRequests

\* the HTTP requests a call of _fetch_matches_by_status may send
RequestBudget ==
    IF monitored_leagues = {} THEN MaxRetries + 1 ELSE 2 * (MaxRetries + 1)

Fetching(t) == pc[t] \in {"acquire", "request", "backoff", "cooldown"}

\* C34: under every sequence of responses a call of _fetch_matches_by_status
\* sends at most max_retries + 1 requests when no league filter is
\* configured and at most 2 * (max_retries + 1) when one is, and it ends:
\* it returns a list or raises.
C34_FetchEndsWithinBudget ==
    /\ [](\A t \in Tasks : sent[t] <= RequestBudget)
    /\ \A t \in Tasks : Fetching(t) ~> (outcome[t] \in {"list", "raised"})

\* a fetch under a league filter has used its whole budget and returned
C34_Witness ==
    \E t \in Tasks :
        /\ monitored_leagues # {}
        /\ outcome[t] = "list"
        /\ sent[t] = RequestBudget
        /\ Len(resps[t]) = RequestBudget

\* the fetch of cycle t has received a 400 to its filtered request
Filter400(t) == \E i \in DOMAIN resps[t] : resps[t][i] = <<"filtered", "s400">>

\* every attempt of the filtered request, the last retry included, timed out
FilteredTimedOut(t) ==
    /\ Len(resps[t]) = MaxRetries + 1
    /\ \A i \in DOMAIN resps[t] : resps[t][i] = <<"filtered", "timeout">>

\* C35: under a league filter, a filtered request that has timed out on
\* every attempt ends the fetch with an empty list and no further request;
\* and an unfiltered request is sent or answered only in a fetch whose
\* filtered request received a 400.
C35_TimeoutsGiveEmptyWithoutFallback ==
    \A t \in Tasks :
        monitored_leagues # {} =>
            /\ FilteredTimedOut(t) =>
                 /\ outcome[t] = "list"
                 /\ batch[t] = <<>>
                 /\ pc[t] = "process"
                 /\ sent[t] = MaxRetries + 1
            /\ (Fetching(t) /\ phase[t] = "unfiltered") => Filter400(t)
            /\ (\E i \in DOMAIN resps[t] : resps[t][i][1] = "unfiltered") => Filter400(t)

\* the filtered request of the live cycle has timed out four times and the
\* fetch has returned
C35_Witness ==
    /\ monitored_leagues # {}
    /\ FilteredTimedOut("live")
    /\ outcome["live"] = "list"

----------------------------------------------------------------------------
(* Properties of the fetch with the limiter inside it (SpecSlots)          *)

\* C33: a call of _fetch_matches_by_status appends exactly one timestamp to
\* the limiter, however many HTTP requests it sends: none while acquire
\* sleeps, one from the first request on, through every retry and the
\* unfiltered fallback, until the iteration is over.
C33_OneSlotPerFetch ==
    \A t \in Tasks :
        /\ pc[t] = "acquire" => probe[t].slots = 0 /\ probe[t].sent = 0
        /\ pc[t] \in {"request", "backoff", "cooldown", "process", "sleep"}
             => probe[t].slots = 1

\* a fetch that retried the filtered request to the last retry, fell back
\* and retried the unfiltered request to the last retry has returned:
\* 2 * (max_retries + 1) requests on one slot, the limiter holding more
\* than max_requests timestamps
C33_Witness ==
    \E t \in Tasks :
        /\ pc[t] = "process"
        /\ probe[t].sent = 2 * (MaxRetries + 1)
        /\ probe[t].slots = 1
        /\ Len(requests) > MaxRequests

----------------------------------------------------------------------------
(* Properties of the live cycle and its fingerprints (SpecLive)            *)

\* the fingerprints of the matches notified in the iteration
NotifiedFp == {Fingerprint(probe.fetched[i]) : i \in probe.called}

\* C36: once the analysis of a match has raised in a live iteration, notify
\* has been called in that iteration only for matches before it in the
\* batch, and stays so until the next fetch returns; the cache holds what it
\* held when the batch arrived and the fingerprints of the matches notified
\* before the failing one, each of them inserted, and nothing else.
C36_RaiseEndsIterationKeepsCache ==
    probe.raised > 0 =>
        /\ probe.called \subseteq 1..(probe.raised - 1)
        /\ pc["live"] \notin {"process", "notify"}
        /\ notified_opportunities = probe.before \cup NotifiedFp
        /\ notified_others = 0

\* the analysis of the first match raised with a match carrying a new
\* opportunity behind it; and the analysis of the second raised after the
\* first was notified and inserted
C36_Witness ==
    /\ probe.raised > 0
    /\ pc["live"] = "sleep"
    /\ \/ /\ probe.fetched = <<rKills, rEdgeMoved>>
          /\ Fingerprint(rEdgeMoved) \notin notified_opportunities
          /\ notified_opportunities # {}
       \/ /\ probe.fetched = <<rEdgeMoved, rKills>>
          /\ probe.called = {1}
          /\ Fingerprint(rEdgeMoved) \notin probe.before
          /\ Fingerprint(rEdgeMoved) \in notified_opportunities

\* C37: a step of the live loop on a match whose opportunity set is empty,
\* or whose fingerprint is in the cache, calls no notify, leaves the cache
\* as it is and goes on with the next match.
C37_EmptyOrCachedIsSilent ==
    [][(/\ InLoop("live")
        /\ ~AnalysisRaises(Current("live"))
        /\ \/ find_value_opportunities(Current("live")) = {}
           \/ Fingerprint(Current("live")) \in notified_opportunities)
         => /\ ~NotifyCalled("live")
            /\ UNCHANGED cacheVars
            /\ pc'["live"] = "process"
            /\ idx'["live"] = idx["live"] + 1]_vars

\* a match without opportunity and a match whose fingerprint the cache held
\* when the batch arrived were passed over: no notify in the iteration, the
\* cache as before
C37_Witness ==
    /\ probe.fetched = <<rNoEdge, rEdgeBoth>>
    /\ Fingerprint(rEdgeBoth) \in probe.before
    /\ pc["live"] = "process" /\ idx["live"] = 3
    /\ probe.called = {}
    /\ notified_opportunities = probe.before

\* the opportunity sets under which the match of rec is in the cache
CachedSets(rec) == {f[2] : f \in {g \in notified_opportunities : g[1] = MatchName(rec)}}

\* two opportunity sets differ in a price or in the markets they hold
Differ(a, b) ==
    \/ {o.key : o \in a} # {o.key : o \in b}
    \/ \E o \in a, q \in b : o.key = q.key /\ (o.current # q.current \/ o.fairp # q.fairp)

\* C38: the fingerprint covers the opportunity set with its prices: when the
\* live loop reaches an already-notified match whose opportunity set is not
\* empty and differs, in a price or in the opportunities it holds, from
\* every set the cache holds for that match, it calls notify again.
C38_ChangedSetNotifiedAgain ==
    [][(/\ InLoop("live")
        /\ ~AnalysisRaises(Current("live"))
        /\ find_value_opportunities(Current("live")) # {}
        /\ CachedSets(Current("live")) # {}
        /\ \A s \in CachedSets(Current("live")) :
               Differ(s, find_value_opportunities(Current("live"))))
         => NotifyCalled("live")]_vars

\* the match notified at 2.10 is notified again at 2.20, and again when a
\* second opportunity joins the first: three fingerprints of one match
C38_Witness ==
    /\ pc["live"] = "process"
    /\ probe.called # {}
    /\ {Fingerprint(rEdge), Fingerprint(rEdgeMoved), Fingerprint(rEdgeBoth)}
          \subseteq notified_opportunities
    /\ Cardinality(notified_opportunities) = 3

\* two records of one match under different match ids: the same two team
\* names and the same opportunity set
Twins(r, q) ==
    /\ r.id # q.id
    /\ r.team1 = q.team1 /\ r.team2 = q.team2
    /\ ~AnalysisRaises(r) /\ ~AnalysisRaises(q)
    /\ find_value_opportunities(r) = find_value_opportunities(q)

\* C39: the fingerprint names the match by its two team names and not by
\* its match id: when the live loop reaches a record while the cache holds
\* the fingerprint of a record with another match id, the same team names
\* and the same opportunity set, it calls no notify; and of two such
\* records in one batch the second is never notified.
C39_SameNamesOneFingerprint ==
    /\ \A i \in DOMAIN probe.fetched : \A j \in DOMAIN probe.fetched :
          (i < j /\ Twins(probe.fetched[i], probe.fetched[j])) => j \notin probe.called
    /\ \A r \in LiveFeed :
          (/\ InLoop("live")
           /\ Twins(r, Current("live"))
           /\ Fingerprint(r) \in notified_opportunities)
             => ENABLED (LiveStep /\ pc'["live"] = "process")
                  /\ ~ENABLED (LiveStep /\ pc'["live"] = "notify")

\* the record with match id 1 was notified and the record with match id 7
\* after it in the same batch was passed over
C39_Witness ==
    /\ probe.fetched = <<rEdge, rEdgeTwin>>
    /\ probe.called = {1}
    /\ pc["live"] = "process" /\ idx["live"] = 3
    /\ Cardinality(notified_opportunities) = 1


====
